---- MODULE Spec2Model ----
(***************************************************************************)
(* Model of the indexing and graph engine of fv-skills-command             *)
(* (packages/core): identifier normalisation, the wiki-link resolver, the  *)
(* graph builder with its node upsert and edge de-duplication, the cycle   *)
(* condenser (Tarjan SCC), the sort and the adjacency export.              *)
(*                                                                         *)
(* Strings are sequences of one-character strings, so that trimming, case  *)
(* folding, the regular-expression replacements and the collation of ids   *)
(* are computed character by character as the code computes them.         *)
(***************************************************************************)
EXTENDS Integers, Sequences, FiniteSets, TLC

VARIABLES
    pc,          \* "ready" before the call under study, "done" after it
    rawSkills,   \* the record list handed to buildSkillsGraph
    options,     \* the options object handed to buildSkillsGraph
    built,       \* the local `graph` of buildSkillsGraph: the builder's nodes and edges
    graph,       \* the value returned by buildSkillsGraph (NoGraph before)
    graph2,      \* the value returned by a second call on the same arguments
    known,       \* the entry list handed to createWikiLinkResolver
    permuted,    \* the same entries in another insertion order
    probe,       \* the target handed to resolver.resolve
    verdict,     \* resolve(probe) of the resolver built from known
    verdictP,    \* resolve(probe) of the resolver built from permuted
    text,        \* the string handed to normalizeSkillId
    once,        \* normalizeSkillId(text)
    twice,       \* normalizeSkillId(normalizeSkillId(text))
    fmArg,       \* the frontmatter handed to validateFrontmatter
    setArg,      \* the skills value handed to validateSkillSet
    optArg,      \* the options handed to either of them
    outcome,     \* what the validator call returned, or that it threw
    adapter,     \* the HealthInputAdapter: its answers and its directory tree
    run,         \* runHealthChecks under way: startTime and the settled adapter rules
    calls,       \* the adapter operations called so far, in the order of the calls
    abortRequested, \* the host has asked for the run to be abandoned
    mdFiles,     \* the list collected by collectMarkdownFiles
    report,      \* the HealthReport returned by runHealthChecks
    disk,        \* the folder behind an adapter: its entries, some of them failing
    request,     \* the adapter operation asked for and its path argument
    answers,     \* what each adapter variant answered to the request
    fsOptions,   \* the options handed to createFsaFs
    fsOutcome    \* the last call on the object of createFsaFs and how it ended

graphVars == <<rawSkills, options, built, graph, graph2>>

resolverVars == <<known, permuted, probe, verdict, verdictP>>

normalizerVars == <<text, once, twice>>

schemaVars == <<fmArg, setArg, optArg, outcome>>

healthVars == <<adapter, run, calls, abortRequested, mdFiles, report>>

adapterVars == <<disk, request, answers, fsOptions, fsOutcome>>

vars == <<pc, rawSkills, options, built, graph, graph2,
          known, permuted, probe, verdict, verdictP,
          text, once, twice, fmArg, setArg, optArg, outcome,
          adapter, run, calls, abortRequested, mdFiles, report,
          disk, request, answers, fsOptions, fsOutcome>>

(***************************************************************************)
(* Characters and strings                                                  *)
(***************************************************************************)
UpperCase ==
    <<"A","B","C","D","E","F","G","H","I","J","K","L","M",
      "N","O","P","Q","R","S","T","U","V","W","X","Y","Z">>

LowerCase ==
    <<"a","b","c","d","e","f","g","h","i","j","k","l","m",
      "n","o","p","q","r","s","t","u","v","w","x","y","z">>

Digits == <<"0","1","2","3","4","5","6","7","8","9">>

Range(s) == {s[i] : i \in DOMAIN s}

UpperSet == Range(UpperCase)

AlnumSet == Range(LowerCase) \cup Range(Digits)

IsUpper(c) == c \in UpperSet

IsAlnum(c) == c \in AlnumSet

\* the white space that trim removes
IsSpace(c) == c \in {" ", "\t", "\n", "\r"}

\* String.prototype.toLowerCase on one character
LowerOf == [c \in UpperSet |-> LowerCase[CHOOSE i \in DOMAIN UpperCase : UpperCase[i] = c]]

ToLowerChar(c) == IF IsUpper(c) THEN LowerOf[c] ELSE c

ToLower(s) == [i \in DOMAIN s |-> ToLowerChar(s[i])]

\* String.prototype.trim
RECURSIVE TrimLeft(_)
TrimLeft(s) ==
    IF s # <<>> /\ IsSpace(Head(s)) THEN TrimLeft(Tail(s)) ELSE s

RECURSIVE TrimRight(_)
TrimRight(s) ==
    IF s # <<>> /\ IsSpace(s[Len(s)])
    THEN TrimRight(SubSeq(s, 1, Len(s) - 1))
    ELSE s

Trim(s) == TrimRight(TrimLeft(s))

EndsWith(s, suffix) ==
    /\ Len(s) >= Len(suffix)
    /\ SubSeq(s, Len(s) - Len(suffix) + 1, Len(s)) = suffix

StartsWith(s, prefix) ==
    /\ Len(s) >= Len(prefix)
    /\ SubSeq(s, 1, Len(prefix)) = prefix

\* .replace(/\.md$/i, '')
StripMdSuffix(s) ==
    IF EndsWith(ToLower(s), <<".", "m", "d">>)
    THEN SubSeq(s, 1, Len(s) - 3)
    ELSE s

\* .replace(/[^a-z0-9]+/g, '-'): every maximal run of characters outside
\* [a-z0-9] becomes one '-'
RECURSIVE ReplaceNonAlnumRuns(_, _)
ReplaceNonAlnumRuns(s, inRun) ==
    IF s = <<>> THEN <<>>
    ELSE IF IsAlnum(Head(s)) THEN <<Head(s)>> \o ReplaceNonAlnumRuns(Tail(s), FALSE)
    ELSE IF inRun THEN ReplaceNonAlnumRuns(Tail(s), TRUE)
    ELSE <<"-">> \o ReplaceNonAlnumRuns(Tail(s), TRUE)

\* .replace(/-+/g, '-')
RECURSIVE CollapseDashes(_)
CollapseDashes(s) ==
    IF Len(s) < 2 THEN s
    ELSE IF s[1] = "-" /\ s[2] = "-" THEN CollapseDashes(Tail(s))
    ELSE <<Head(s)>> \o CollapseDashes(Tail(s))

\* only the leading '-' is removed
StripEdgeDashes_LeadingOnly(s) ==
    IF s # <<>> /\ Head(s) = "-" THEN Tail(s) ELSE s

\* .replace(/^-|-$/g, ''): one leading and one trailing '-' are removed
StripEdgeDashes(s) ==
    LET a == IF s # <<>> /\ Head(s) = "-" THEN Tail(s) ELSE s
    IN  IF a # <<>> /\ a[Len(a)] = "-" THEN SubSeq(a, 1, Len(a) - 1) ELSE a

normalizeDashSeparated(value) ==
    StripEdgeDashes(
        CollapseDashes(
            ReplaceNonAlnumRuns(StripMdSuffix(ToLower(Trim(value))), FALSE)))

normalizeName(value) == Trim(value)

normalizeSkillId(value) == normalizeDashSeparated(value)

\* path.basename (posix): trailing separators are dropped, then the part
\* after the last '/'
RECURSIVE DropTrailingSlashes(_)
DropTrailingSlashes(s) ==
    IF Len(s) > 1 /\ s[Len(s)] = "/"
    THEN DropTrailingSlashes(SubSeq(s, 1, Len(s) - 1))
    ELSE s

basename(p) ==
    LET s == DropTrailingSlashes(p)
        slashes == {i \in DOMAIN s : s[i] = "/"}
        last == IF slashes = {} THEN 0 ELSE CHOOSE i \in slashes : \A j \in slashes : j <= i
    IN  IF s = <<"/">> THEN s ELSE SubSeq(s, last + 1, Len(s))

\* .replace(/\.[^.]+$/, ''): the last extension is removed
StripExtension(s) ==
    LET dots == {i \in DOMAIN s : s[i] = "." /\ i < Len(s)}
        last == IF dots = {} THEN 0 ELSE CHOOSE i \in dots : \A j \in dots : j <= i
    IN  IF last = 0 THEN s ELSE SubSeq(s, 1, last - 1)

safeFileStem(filePath) == StripExtension(basename(filePath))

\* decimal rendering of a natural number (template literal `${n}`)
RECURSIVE NatToString(_)
NatToString(n) ==
    IF n < 10 THEN <<Digits[n + 1]>>
    ELSE NatToString(n \div 10) \o <<Digits[(n % 10) + 1]>>

(***************************************************************************)
(* String.prototype.localeCompare for the root collation: strings compare  *)
(* by the primary weights of their characters (white space, punctuation,   *)
(* symbols, digits, letters), and strings with equal primary keys compare  *)
(* by case, lower case first.                                              *)
(***************************************************************************)
CollationOrder ==
    <<" ", "_", "-", ",", ";", ":", "!", "?", ".", "'", "(", ")", "[", "]",
      "@", "*", "/", "&", "#", "%", "+", "<", "=", ">", "|", "~", "$">>
    \o Digits \o LowerCase

\* a letter has the primary weight of its lower-case form
PrimaryWeightOf ==
    [c \in Range(CollationOrder) \cup UpperSet |->
        CHOOSE i \in DOMAIN CollationOrder : CollationOrder[i] = ToLowerChar(c)]

CaseWeightOf ==
    [c \in Range(CollationOrder) \cup UpperSet |-> IF IsUpper(c) THEN 1 ELSE 0]

\* -1, 0, 1 as the lexicographic comparison of the weights W of the
\* characters of a and b from position i on
RECURSIVE CompareWeights(_, _, _, _)
CompareWeights(a, b, W, i) ==
    IF i > Len(a) /\ i > Len(b) THEN 0
    ELSE IF i > Len(a) THEN -1
    ELSE IF i > Len(b) THEN 1
    ELSE IF W[a[i]] < W[b[i]] THEN -1
    ELSE IF W[a[i]] > W[b[i]] THEN 1
    ELSE CompareWeights(a, b, W, i + 1)

localeCompare(a, b) ==
    LET p == CompareWeights(a, b, PrimaryWeightOf, 1)
    IN  IF p # 0 THEN p ELSE CompareWeights(a, b, CaseWeightOf, 1)

\* Array.prototype.sort((a, b) => a.id.localeCompare(b.id)): insertion
\* sort, stable like the engine's sort
RECURSIVE InsertById(_, _)
InsertById(sorted, x) ==
    IF sorted = <<>> THEN <<x>>
    ELSE IF localeCompare(x.id, Head(sorted).id) < 0 THEN <<x>> \o sorted
    ELSE <<Head(sorted)>> \o InsertById(Tail(sorted), x)

RECURSIVE SortById(_)
SortById(s) ==
    IF s = <<>> THEN <<>>
    ELSE InsertById(SortById(SubSeq(s, 1, Len(s) - 1)), s[Len(s)])

\* Array.prototype.sort((a, b) => a.localeCompare(b)) on strings
RECURSIVE InsertString(_, _)
InsertString(sorted, x) ==
    IF sorted = <<>> THEN <<x>>
    ELSE IF localeCompare(x, Head(sorted)) < 0 THEN <<x>> \o sorted
    ELSE <<Head(sorted)>> \o InsertString(Tail(sorted), x)

RECURSIVE SortStrings(_)
SortStrings(s) ==
    IF s = <<>> THEN <<>>
    ELSE InsertString(SortStrings(SubSeq(s, 1, Len(s) - 1)), s[Len(s)])

\* Array.prototype.sort() without a comparator orders by UTF-16 code unit
CodeUnitOrder ==
    <<" ", "!", "#", "$", "%", "&", "'", "(", ")", "*", "+", ",", "-", ".", "/">>
    \o Digits \o <<":", ";", "<", "=", ">", "?", "@">> \o UpperCase
    \o <<"[", "]", "_">> \o LowerCase \o <<"|", "~">>

CodeUnitOf ==
    [c \in Range(CodeUnitOrder) |->
        CHOOSE i \in DOMAIN CodeUnitOrder : CodeUnitOrder[i] = c]

codeUnitCompare(a, b) == CompareWeights(a, b, CodeUnitOf, 1)

RECURSIVE InsertCodeUnit(_, _)
InsertCodeUnit(sorted, x) ==
    IF sorted = <<>> THEN <<x>>
    ELSE IF codeUnitCompare(x, Head(sorted)) < 0 THEN <<x>> \o sorted
    ELSE <<Head(sorted)>> \o InsertCodeUnit(Tail(sorted), x)

RECURSIVE DefaultSort(_)
DefaultSort(s) ==
    IF s = <<>> THEN <<>>
    ELSE InsertCodeUnit(DefaultSort(SubSeq(s, 1, Len(s) - 1)), s[Len(s)])

(***************************************************************************)
(* JavaScript values: the empty string stands for every falsy string-like  *)
(* field (undefined, null, ''); Null is the value null of an output field. *)
(***************************************************************************)
Null == <<"null">>

\* a || b on strings
Or(a, b) == IF a # <<>> THEN a ELSE b

\* a.filter(Boolean) on a list of strings
RECURSIVE FilterNonEmpty(_)
FilterNonEmpty(s) ==
    IF s = <<>> THEN <<>>
    ELSE IF Head(s) = <<>> THEN FilterNonEmpty(Tail(s))
    ELSE <<Head(s)>> \o FilterNonEmpty(Tail(s))

\* Map.prototype.set, for a map that is only read with get
MapSet(m, k, v) == [x \in DOMAIN m \cup {k} |-> IF x = k THEN v ELSE m[x]]

EmptyMap == [x \in {} |-> <<>>]

(***************************************************************************)
(* resolver.js                                                             *)
(***************************************************************************)
GHOST_PREFIX == <<"u","n","r","e","s","o","l","v","e","d",":">>

UNKNOWN == <<"u","n","k","n","o","w","n">>

NoEntry == [id |-> <<>>]

\* toCanonicalEntry, for an entry that is an object; NoEntry for null
toCanonicalEntry(raw) ==
    LET primaryName ==
            normalizeName(Or(raw.name, Or(raw.id, Or(raw.slug,
                Or(raw.fileStem, Or(raw.file, raw.path))))))
        normalizedId ==
            normalizeDashSeparated(Or(raw.id, Or(raw.name, Or(raw.slug,
                Or(raw.fileStem, safeFileStem(Or(raw.file, raw.path)))))))
        stem ==
            normalizeDashSeparated(
                Or(raw.fileStem, safeFileStem(Or(raw.file, Or(raw.path, primaryName)))))
        allNames == <<primaryName, raw.id, raw.slug>> \o raw.aliases
    IN  IF normalizedId = <<>> THEN NoEntry
        ELSE [id          |-> normalizedId,
              displayName |-> Or(primaryName, normalizedId),
              names       |-> FilterNonEmpty([i \in DOMAIN allNames |-> normalizeName(allNames[i])]),
              stem        |-> Or(stem, normalizedId)]

\* the inner loop of createWikiLinkResolver over entry.names
RECURSIVE IndexNames(_, _, _)
IndexNames(idx, names, entry) ==
    IF names = <<>> THEN idx
    ELSE IndexNames(
            [idx EXCEPT !.exact = MapSet(idx.exact, Head(names), entry),
                        !.normalized = MapSet(idx.normalized,
                                              normalizeDashSeparated(Head(names)), entry)],
            Tail(names), entry)

\* one iteration of the outer loop of createWikiLinkResolver
IndexEntry(idx, rawEntry) ==
    LET entry == toCanonicalEntry(rawEntry)
        byName == IndexNames(idx, entry.names, entry)
    IN  IF entry = NoEntry THEN idx
        ELSE [byName EXCEPT !.normalized = MapSet(byName.normalized, entry.id, entry),
                            !.stems = MapSet(idx.stems, entry.stem, entry)]

RECURSIVE IndexAll(_, _)
IndexAll(idx, knownSkills) ==
    IF knownSkills = <<>> THEN idx
    ELSE IndexAll(IndexEntry(idx, Head(knownSkills)), Tail(knownSkills))

\* the three maps of the resolver returned by createWikiLinkResolver
createWikiLinkResolver(knownSkills) ==
    IndexAll([exact |-> EmptyMap, normalized |-> EmptyMap, stems |-> EmptyMap],
             knownSkills)

\* resolve looking in the stem index before the normalized index
resolve_StemBeforeNormalized(resolver, targetRaw) ==
    LET target == normalizeName(targetRaw)
        normalizedTarget == normalizeDashSeparated(target)
    IN  IF target = <<>>
        THEN [found |-> FALSE, matchedBy |-> "ghost",
              id |-> GHOST_PREFIX \o UNKNOWN, displayName |-> UNKNOWN]
        ELSE IF target \in DOMAIN resolver.exact
        THEN [found |-> TRUE, matchedBy |-> "exact",
              id |-> resolver.exact[target].id,
              displayName |-> resolver.exact[target].displayName]
        ELSE IF normalizedTarget \in DOMAIN resolver.stems
        THEN [found |-> TRUE, matchedBy |-> "filename-stem",
              id |-> resolver.stems[normalizedTarget].id,
              displayName |-> resolver.stems[normalizedTarget].displayName]
        ELSE IF normalizedTarget \in DOMAIN resolver.normalized
        THEN [found |-> TRUE, matchedBy |-> "normalized",
              id |-> resolver.normalized[normalizedTarget].id,
              displayName |-> resolver.normalized[normalizedTarget].displayName]
        ELSE [found |-> FALSE, matchedBy |-> "ghost",
              id |-> GHOST_PREFIX \o Or(normalizedTarget, UNKNOWN),
              displayName |-> target]

\* resolver.resolve(targetRaw)
resolve(resolver, targetRaw) ==
    LET target == normalizeName(targetRaw)
        normalizedTarget == normalizeDashSeparated(target)
    IN  IF target = <<>>
        THEN [found |-> FALSE, matchedBy |-> "ghost",
              id |-> GHOST_PREFIX \o UNKNOWN, displayName |-> UNKNOWN]
        ELSE IF target \in DOMAIN resolver.exact
        THEN [found |-> TRUE, matchedBy |-> "exact",
              id |-> resolver.exact[target].id,
              displayName |-> resolver.exact[target].displayName]
        ELSE IF normalizedTarget \in DOMAIN resolver.normalized
        THEN [found |-> TRUE, matchedBy |-> "normalized",
              id |-> resolver.normalized[normalizedTarget].id,
              displayName |-> resolver.normalized[normalizedTarget].displayName]
        ELSE IF normalizedTarget \in DOMAIN resolver.stems
        THEN [found |-> TRUE, matchedBy |-> "filename-stem",
              id |-> resolver.stems[normalizedTarget].id,
              displayName |-> resolver.stems[normalizedTarget].displayName]
        ELSE [found |-> FALSE, matchedBy |-> "ghost",
              id |-> GHOST_PREFIX \o Or(normalizedTarget, UNKNOWN),
              displayName |-> target]

(***************************************************************************)
(* graph.js: the builder                                                   *)
(***************************************************************************)
SKILL    == <<"s","k","i","l","l">>
SUBAGENT == <<"s","u","b","a","g","e","n","t">>
HOOK     == <<"h","o","o","k">>
COMMAND  == <<"c","o","m","m","a","n","d">>
MOC      == <<"m","o","c">>
SCRIPT   == <<"s","c","r","i","p","t">>
UNRESOLVED == <<"u","n","r","e","s","o","l","v","e","d">>
CYCLE    == <<"c","y","c","l","e">>

RELATED  == <<"r","e","l","a","t","e","d">>
WIKI     == <<"w","i","k","i">>
SCRIPTS  == <<"s","c","r","i","p","t","s">>

RecordKinds == {SKILL, SUBAGENT, HOOK, COMMAND, MOC, SCRIPT}

TYPE_TO_SHAPE(type) ==
    CASE type = SKILL -> "ellipse"
      [] type = SUBAGENT -> "round-rectangle"
      [] type = HOOK -> "hexagon"
      [] type = COMMAND -> "parallelogram"
      [] type = MOC -> "diamond"
      [] type = SCRIPT -> "rectangle"
      [] type = UNRESOLVED -> "round-rectangle"
      [] type = CYCLE -> "round-rectangle"

\* the colours are named by their theme key
TYPE_TO_COLOR(type) ==
    CASE type = SKILL -> "primary"
      [] type = SUBAGENT -> "#6495ED"
      [] type = HOOK -> "steelBlue"
      [] type = COMMAND -> "lightBlue"
      [] type = MOC -> "accent"
      [] type = SCRIPT -> "slateGray"
      [] type = UNRESOLVED -> "slateGray"
      [] type = CYCLE -> "accent"

normalizeType(rawType, moc) ==
    LET normalized == normalizeSkillId(Or(rawType, SKILL))
    IN  IF moc THEN MOC
        ELSE IF normalized \in RecordKinds THEN normalized
        ELSE SKILL

deriveSkillId(raw) ==
    normalizeSkillId(Or(raw.id, Or(raw.name, Or(raw.slug,
        Or(raw.fileStem, basename(Or(raw.file, raw.path)))))))

deriveLabel(raw, id) ==
    Or(raw.name, Or(raw.title, Or(raw.slug, Or(id, UNKNOWN))))

scriptNodeId(scriptPath) == SCRIPT \o <<":">> \o Trim(scriptPath)

\* one iteration of the loop of parseSkillInput: <<>> when the record is
\* skipped, a one-element list otherwise
parseOne(raw) ==
    LET id == deriveSkillId(raw)
    IN  IF id = <<>> THEN <<>>
        ELSE << [id        |-> id,
                 name      |-> deriveLabel(raw, id),
                 type      |-> normalizeType(raw.type, raw.moc),
                 moc       |-> raw.moc,
                 category  |-> Or(raw.category, Null),
                 status    |-> Or(raw.status, Null),
                 file      |-> Or(raw.file, Null),
                 path      |-> Or(raw.path, Null),
                 fileStem  |-> Or(raw.fileStem,
                                  StripExtension(basename(Or(raw.file, raw.path)))),
                 related   |-> raw.related,
                 scripts   |-> raw.scripts,
                 wikiLinks |-> raw.wikiLinks,
                 aliases   |-> raw.aliases] >>

RECURSIVE parseSkillInput(_)
parseSkillInput(raws) ==
    IF raws = <<>> THEN <<>>
    ELSE parseOne(Head(raws)) \o parseSkillInput(Tail(raws))

\* file and path are null in a parsed skill when absent; the resolver reads
\* them with ||, for which null and '' are the same
collectKnownSkills(skills) ==
    [i \in DOMAIN skills |->
        [id       |-> skills[i].id,
         name     |-> skills[i].name,
         slug     |-> <<>>,
         file     |-> IF skills[i].file = Null THEN <<>> ELSE skills[i].file,
         path     |-> IF skills[i].path = Null THEN <<>> ELSE skills[i].path,
         fileStem |-> skills[i].fileStem,
         aliases  |-> skills[i].aliases]]

\* variant: only an exact match counts as found
resolveTarget_ExactOnly(rawTarget, resolver) ==
    LET target == Trim(rawTarget)
        resolved == resolve(resolver, target)
    IN  IF target = <<>>
        THEN [id |-> GHOST_PREFIX \o UNKNOWN, found |-> FALSE, matchedBy |-> "ghost",
              label |-> UNKNOWN, raw |-> target]
        ELSE [id |-> resolved.id, found |-> resolved.matchedBy = "exact",
              matchedBy |-> resolved.matchedBy,
              label |-> Or(resolved.displayName, target), raw |-> target]

resolveTarget(rawTarget, resolver) ==
    LET target == Trim(rawTarget)
        resolved == resolve(resolver, target)
    IN  IF target = <<>>
        THEN [id |-> GHOST_PREFIX \o UNKNOWN, found |-> FALSE, matchedBy |-> "ghost",
              label |-> UNKNOWN, raw |-> target]
        ELSE [id |-> resolved.id, found |-> resolved.found,
              matchedBy |-> resolved.matchedBy,
              label |-> Or(resolved.displayName, target), raw |-> target]

nodeFromSkill(skill) ==
    [id       |-> skill.id,
     label    |-> skill.name,
     type     |-> skill.type,
     shape    |-> TYPE_TO_SHAPE(skill.type),
     color    |-> TYPE_TO_COLOR(skill.type),
     category |-> skill.category,
     status   |-> skill.status,
     moc      |-> skill.moc,
     isGhost  |-> FALSE,
     members  |-> <<>>]

nodeFromGhost(target) ==
    [id      |-> target.id,
     label   |-> Or(target.raw, Or(target.label, target.id)),
     type    |-> UNRESOLVED,
     shape   |-> TYPE_TO_SHAPE(UNRESOLVED),
     color   |-> TYPE_TO_COLOR(UNRESOLVED),
     isGhost |-> TRUE,
     members |-> <<>>]

nodeFromScript(scriptPath) ==
    [id         |-> scriptNodeId(scriptPath),
     label      |-> basename(scriptPath),
     type       |-> SCRIPT,
     shape      |-> TYPE_TO_SHAPE(SCRIPT),
     color      |-> TYPE_TO_COLOR(SCRIPT),
     scriptPath |-> scriptPath,
     isGhost    |-> FALSE,
     members    |-> <<>>]

\* { ...a, ...b }
Spread(a, b) ==
    [k \in DOMAIN a \cup DOMAIN b |-> IF k \in DOMAIN b THEN b[k] ELSE a[k]]

\* the index of the entry with this id in a Map kept as the list of its
\* values in insertion order; 0 when absent
IndexOfId(list, id) ==
    IF \E i \in DOMAIN list : list[i].id = id
    THEN CHOOSE i \in DOMAIN list : list[i].id = id
    ELSE 0

\* the object built by upsertNode for an id that is already in the map
mergeNode(existing, node) ==
    LET members == IF "members" \in DOMAIN existing THEN existing.members
                   ELSE IF "members" \in DOMAIN node THEN node.members
                   ELSE <<>>
        merged == Spread(Spread(existing, node), [members |-> members])
    IN  IF existing.isGhost /\ ~node.isGhost
        THEN [merged EXCEPT !["color"] = node.color,
                            !["type"] = node.type,
                            !["label"] = node.label,
                            !["isGhost"] = FALSE]
        ELSE merged

\* variant: the node is stored without looking for its id
upsertNode_AlwaysAppend(nodeMap, node) == Append(nodeMap, node)

upsertNode(nodeMap, node) ==
    LET i == IndexOfId(nodeMap, node.id)
    IN  IF i = 0 THEN Append(nodeMap, node)
        ELSE [nodeMap EXCEPT ![i] = mergeNode(nodeMap[i], node)]

edgeKey(source, target, kind) ==
    source \o <<"=", ">">> \o target \o <<":", ":">> \o kind

\* variant: a later insertion of the same key replaces the earlier one
addEdge_LastWins(edgeMap, source, target, kind, extras) ==
    LET key == edgeKey(source, target, kind)
        edge == Spread([id |-> key, source |-> source, target |-> target, kind |-> kind],
                       extras)
    IN  IF source = <<>> \/ target = <<>> THEN edgeMap
        ELSE IF IndexOfId(edgeMap, key) # 0
             THEN [edgeMap EXCEPT ![IndexOfId(edgeMap, key)] = edge]
        ELSE Append(edgeMap, edge)

addEdge(edgeMap, source, target, kind, extras) ==
    LET key == edgeKey(source, target, kind)
    IN  IF source = <<>> \/ target = <<>> THEN edgeMap
        ELSE IF IndexOfId(edgeMap, key) # 0 THEN edgeMap
        ELSE Append(edgeMap,
                    Spread([id |-> key, source |-> source, target |-> target, kind |-> kind],
                           extras))

NoExtras == [x \in {} |-> <<>>]

\* first loop of buildSkillsGraph: one node per parsed skill
RECURSIVE addSkillNodes(_, _)
addSkillNodes(nodeMap, skills) ==
    IF skills = <<>> THEN nodeMap
    ELSE addSkillNodes(upsertNode(nodeMap, nodeFromSkill(Head(skills))), Tail(skills))

\* the loop over skill.scripts; g is the pair of maps [nodes, edges]
RECURSIVE addScripts(_, _, _)
addScripts(g, skillId, scripts) ==
    IF scripts = <<>> THEN g
    ELSE IF Head(scripts) = <<>> THEN addScripts(g, skillId, Tail(scripts))
    ELSE LET scriptNode == nodeFromScript(Head(scripts))
         IN  addScripts([nodes |-> upsertNode(g.nodes, scriptNode),
                         edges |-> addEdge(g.edges, skillId, scriptNode.id, SCRIPTS, NoExtras)],
                        skillId, Tail(scripts))

\* the loops over skill.related and skill.wikiLinks (kind tells which)
RECURSIVE addReferences(_, _, _, _, _)
addReferences(g, skillId, targets, kind, resolver) ==
    IF targets = <<>> THEN g
    ELSE LET target == resolveTarget(Head(targets), resolver)
             withGhost == IF ~target.found
                          THEN upsertNode(g.nodes, nodeFromGhost(target))
                          ELSE g.nodes
         IN  addReferences(
                 [nodes |-> withGhost,
                  edges |-> addEdge(g.edges, skillId, target.id, kind,
                                    [targetRaw |-> target.raw,
                                     matchedBy |-> target.matchedBy])],
                 skillId, Tail(targets), kind, resolver)

\* the body of the second loop of buildSkillsGraph for one skill
addSkillEdges(g, skill, resolver) ==
    addReferences(
        addReferences(addScripts(g, skill.id, skill.scripts),
                      skill.id, skill.related, RELATED, resolver),
        skill.id, skill.wikiLinks, WIKI, resolver)

RECURSIVE addAllEdges(_, _, _)
addAllEdges(g, skills, resolver) ==
    IF skills = <<>> THEN g
    ELSE addAllEdges(addSkillEdges(g, Head(skills), resolver), Tail(skills), resolver)

\* the builder's graph: lines 399-444 of buildSkillsGraph
builderGraph(raws) ==
    LET skills == parseSkillInput(raws)
        resolver == createWikiLinkResolver(collectKnownSkills(skills))
    IN  addAllEdges([nodes |-> addSkillNodes(<<>>, skills), edges |-> <<>>],
                    skills, resolver)

(***************************************************************************)
(* graph.js: the cycle condenser                                           *)
(***************************************************************************)
isEligible(node) == ~node.isGhost /\ node.type # SCRIPT /\ node.type # CYCLE

\* SelectSeq with the code's predicates
RECURSIVE eligibleIds(_)
eligibleIds(nodes) ==
    IF nodes = <<>> THEN <<>>
    ELSE IF isEligible(Head(nodes)) THEN <<Head(nodes).id>> \o eligibleIds(Tail(nodes))
    ELSE eligibleIds(Tail(nodes))

RECURSIVE neighborsOf(_, _, _)
neighborsOf(id, edges, eligible) ==
    IF edges = <<>> THEN <<>>
    ELSE IF Head(edges).source = id /\ Head(edges).source \in eligible
            /\ Head(edges).target \in eligible
         THEN <<Head(edges).target>> \o neighborsOf(id, Tail(edges), eligible)
         ELSE neighborsOf(id, Tail(edges), eligible)

\* keys: the eligible ids in node order (the Map's key order);
\* adj: id -> list of targets in edge order
buildCycleAdjacency(nodes, edges) ==
    LET keys == eligibleIds(nodes)
        eligible == Range(keys)
    IN  [keys |-> keys,
         eligible |-> eligible,
         adj |-> [id \in eligible |-> neighborsOf(id, edges, eligible)]]

\* pop the stack down to and including node; returns the popped members in
\* pop order and the rest of the stack
RECURSIVE popComponent(_, _, _)
popComponent(stack, node, component) ==
    IF stack = <<>> THEN [component |-> component, stack |-> stack]
    ELSE LET member == stack[Len(stack)]
             rest == SubSeq(stack, 1, Len(stack) - 1)
         IN  IF member = node
             THEN [component |-> Append(component, member), stack |-> rest]
             ELSE popComponent(rest, node, Append(component, member))

\* variant: the low link of a node is never lowered
Min_KeepsFirst(a, b) == a

\* Math.min
Min(a, b) == IF a < b THEN a ELSE b

RECURSIVE strongConnect(_, _, _)
RECURSIVE visitNeighbors(_, _, _, _)

\* the for loop over the neighbours of node inside strongConnect
visitNeighbors(adj, node, neighbors, st) ==
    IF neighbors = <<>> THEN st
    ELSE LET neighbor == Head(neighbors)
         IN  IF neighbor \notin DOMAIN st.indexByNode
             THEN LET s1 == strongConnect(adj, neighbor, st)
                  IN  visitNeighbors(adj, node, Tail(neighbors),
                          [s1 EXCEPT !.lowLinkByNode[node] =
                              Min(s1.lowLinkByNode[node], s1.lowLinkByNode[neighbor])])
             ELSE IF neighbor \in st.onStack
             THEN visitNeighbors(adj, node, Tail(neighbors),
                      [st EXCEPT !.lowLinkByNode[node] =
                          Min(st.lowLinkByNode[node], st.indexByNode[neighbor])])
             ELSE visitNeighbors(adj, node, Tail(neighbors), st)

strongConnect(adj, node, st) ==
    LET entered == [st EXCEPT !.indexByNode = MapSet(st.indexByNode, node, st.index),
                              !.lowLinkByNode = MapSet(st.lowLinkByNode, node, st.index),
                              !.index = st.index + 1,
                              !.stack = Append(st.stack, node),
                              !.onStack = st.onStack \cup {node}]
        visited == visitNeighbors(adj, node, adj[node], entered)
        popped == popComponent(visited.stack, node, <<>>)
    IN  IF visited.lowLinkByNode[node] = visited.indexByNode[node]
        THEN [visited EXCEPT !.stack = popped.stack,
                             !.onStack = visited.onStack \ Range(popped.component),
                             !.components = Append(visited.components, popped.component)]
        ELSE visited

RECURSIVE tarjanLoop(_, _, _)
tarjanLoop(adj, keys, st) ==
    IF keys = <<>> THEN st
    ELSE IF Head(keys) \notin DOMAIN st.indexByNode
         THEN tarjanLoop(adj, Tail(keys), strongConnect(adj, Head(keys), st))
         ELSE tarjanLoop(adj, Tail(keys), st)

tarjanScc(adjacency) ==
    tarjanLoop(adjacency.adj, adjacency.keys,
               [index |-> 0, indexByNode |-> EmptyMap, lowLinkByNode |-> EmptyMap,
                onStack |-> {}, stack |-> <<>>, components |-> <<>>]).components

\* ids of the edges' sources with edge.source === edge.target
selfLoops(edges) == {edges[i].source : i \in {j \in DOMAIN edges : edges[j].source = edges[j].target}}

\* variant: only the components of two or more nodes count as cycles
RECURSIVE filterCycles_SizeOnly(_, _)
filterCycles_SizeOnly(components, loops) ==
    IF components = <<>> THEN <<>>
    ELSE IF Len(Head(components)) > 1
         THEN <<Head(components)>> \o filterCycles_SizeOnly(Tail(components), loops)
         ELSE filterCycles_SizeOnly(Tail(components), loops)

\* components.filter(c => c.length > 1 || selfLoops.has(c[0]))
RECURSIVE filterCycles(_, _)
filterCycles(components, loops) ==
    IF components = <<>> THEN <<>>
    ELSE IF Len(Head(components)) > 1 \/ Head(components)[1] \in loops
         THEN <<Head(components)>> \o filterCycles(Tail(components), loops)
         ELSE filterCycles(Tail(components), loops)

cycleId(index) == CYCLE \o <<":">> \o NatToString(index)

cycleLabel(size) == CYCLE \o <<"(">> \o NatToString(size) \o <<")">>

\* the supernode pushed by the forEach of condenseCycles; index is 1-based
cycleNode(members, index) ==
    [id        |-> cycleId(index),
     label     |-> cycleLabel(Len(members)),
     type      |-> CYCLE,
     shape     |-> TYPE_TO_SHAPE(CYCLE),
     color     |-> TYPE_TO_COLOR(CYCLE),
     isGhost   |-> FALSE,
     members   |-> DefaultSort(members),
     cycleSize |-> Len(members)]

\* memberToCycle: later cycles overwrite earlier ones, as Map.set does
memberToCycle(cycles) ==
    LET members == UNION {Range(cycles[i]) : i \in DOMAIN cycles}
    IN  [m \in members |->
            cycleId(CHOOSE i \in DOMAIN cycles :
                        /\ m \in Range(cycles[i])
                        /\ \A j \in DOMAIN cycles : m \in Range(cycles[j]) => j <= i)]

\* variant: the edges are not rewritten through memberToCycle
rewriteId_NotRewritten(lookup, id) == id

\* memberToCycle.get(id) || id
rewriteId(lookup, id) == IF id \in DOMAIN lookup THEN lookup[id] ELSE id

RECURSIVE dropMembers(_, _)
dropMembers(nodes, lookup) ==
    IF nodes = <<>> THEN <<>>
    ELSE IF Head(nodes).id \in DOMAIN lookup THEN dropMembers(Tail(nodes), lookup)
    ELSE <<Head(nodes)>> \o dropMembers(Tail(nodes), lookup)

\* the loop that fills condensedEdgeMap
RECURSIVE condenseEdges(_, _, _)
condenseEdges(edgeMap, edges, lookup) ==
    IF edges = <<>> THEN edgeMap
    ELSE LET edge == Head(edges)
             source == rewriteId(lookup, edge.source)
             target == rewriteId(lookup, edge.target)
         IN  IF source = target THEN condenseEdges(edgeMap, Tail(edges), lookup)
             ELSE condenseEdges(
                      addEdge(edgeMap, source, target, edge.kind, [collapsedFrom |-> edge.id]),
                      Tail(edges), lookup)

condenseCycles(nodes, edges) ==
    LET components == tarjanScc(buildCycleAdjacency(nodes, edges))
        cycles == filterCycles(components, selfLoops(edges))
        cycleNodes == [i \in DOMAIN cycles |-> cycleNode(cycles[i], i)]
        lookup == memberToCycle(cycles)
    IN  IF cycles = <<>>
        THEN [nodes |-> nodes, edges |-> edges, cycles |-> <<>>, cycleLookup |-> EmptyMap]
        ELSE [nodes |-> dropMembers(nodes, lookup) \o cycleNodes,
              edges |-> condenseEdges(<<>>, edges, lookup),
              cycles |-> [i \in DOMAIN cycleNodes |->
                             [id |-> cycleNodes[i].id,
                              members |-> cycleNodes[i].members,
                              label |-> cycleNodes[i].label]],
              cycleLookup |-> lookup]

\* variant: the edges are left in insertion order
sortGraph_NodesOnly(nodes, edges) == [nodes |-> SortById(nodes), edges |-> edges]

sortGraph(nodes, edges) == [nodes |-> SortById(nodes), edges |-> SortById(edges)]

(***************************************************************************)
(* graph.js: the adjacency export                                          *)
(***************************************************************************)
\* Array.from(new Set(values)): first occurrences, in order
RECURSIVE Unique(_, _)
Unique(values, seen) ==
    IF values = <<>> THEN <<>>
    ELSE IF Head(values) \in seen THEN Unique(Tail(values), seen)
    ELSE <<Head(values)>> \o Unique(Tail(values), seen \cup {Head(values)})

toSortedUnique(values) == SortStrings(Unique(values, {}))

\* the bucket an edge kind goes to
bucketKind(kind) == IF kind = RELATED \/ kind = SCRIPTS THEN kind ELSE WIKI

RECURSIVE exportedIds(_, _)
exportedIds(nodes, opts) ==
    IF nodes = <<>> THEN <<>>
    ELSE IF \/ (~opts.includeGhost /\ Head(nodes).isGhost)
            \/ (~opts.includeScripts /\ Head(nodes).type = SCRIPT)
            \/ (~opts.includeCycles /\ Head(nodes).type = CYCLE)
         THEN exportedIds(Tail(nodes), opts)
         ELSE <<Head(nodes).id>> \o exportedIds(Tail(nodes), opts)

\* the targets pushed to one bucket of one node; bucket "all" takes all
RECURSIVE bucketTargets(_, _, _)
bucketTargets(id, edges, bucket) ==
    IF edges = <<>> THEN <<>>
    ELSE IF Head(edges).source = id
            /\ (bucket = "all" \/ bucketKind(Head(edges).kind) = bucket)
         THEN <<Head(edges).target>> \o bucketTargets(id, Tail(edges), bucket)
         ELSE bucketTargets(id, Tail(edges), bucket)

\* the largest array index of a JavaScript object, 2^32 - 2
MaxArrayIndex == <<"4","2","9","4","9","6","7","2","9","4">>

\* a property key that is a canonical array index: digits only, no leading
\* zero, at most 2^32 - 2
IsArrayIndex(key) ==
    /\ key # <<>>
    /\ \A i \in DOMAIN key : key[i] \in Range(Digits)
    /\ (Len(key) > 1 => key[1] # "0")
    /\ \/ Len(key) < Len(MaxArrayIndex)
       \/ Len(key) = Len(MaxArrayIndex) /\ codeUnitCompare(key, MaxArrayIndex) <= 0

\* array indices compare by their number: by length, then digit by digit
indexCompare(a, b) ==
    IF Len(a) < Len(b) THEN -1
    ELSE IF Len(a) > Len(b) THEN 1
    ELSE codeUnitCompare(a, b)

RECURSIVE InsertIndex(_, _)
InsertIndex(sorted, x) ==
    IF sorted = <<>> THEN <<x>>
    ELSE IF indexCompare(x, Head(sorted)) < 0 THEN <<x>> \o sorted
    ELSE <<Head(sorted)>> \o InsertIndex(Tail(sorted), x)

RECURSIVE SortIndices(_)
SortIndices(s) ==
    IF s = <<>> THEN <<>>
    ELSE InsertIndex(SortIndices(SubSeq(s, 1, Len(s) - 1)), s[Len(s)])

\* the order in which a plain object enumerates its own string keys: the
\* array indices in ascending numeric order, then the other keys in the
\* order in which they were added
ObjectKeyOrder(inserted) ==
    SortIndices(SelectSeq(inserted, IsArrayIndex))
    \o SelectSeq(inserted, LAMBDA k : ~IsArrayIndex(k))

\* the exported object as the list of its entries in the order of its keys
buildAdjacencyList(nodes, edges, opts) ==
    LET keys == ObjectKeyOrder(SortStrings(Unique(exportedIds(nodes, opts), {})))
    IN  [i \in DOMAIN keys |->
            [key     |-> keys[i],
             all     |-> toSortedUnique(bucketTargets(keys[i], edges, "all")),
             wiki    |-> toSortedUnique(bucketTargets(keys[i], edges, WIKI)),
             related |-> toSortedUnique(bucketTargets(keys[i], edges, RELATED)),
             scripts |-> toSortedUnique(bucketTargets(keys[i], edges, SCRIPTS))]]

(***************************************************************************)
(* graph.js: buildSkillsGraph                                              *)
(***************************************************************************)
\* a build that condenses whatever options.condenseCycles says
finishGraph_AlwaysCondenses(builder, opts) ==
    LET rawAdjacency == buildAdjacencyList(builder.nodes, builder.edges, opts.adjacencyOptions)
        condensed == condenseCycles(builder.nodes, builder.edges)
        sorted == sortGraph(condensed.nodes, condensed.edges)
    IN  [nodes |-> sorted.nodes,
         edges |-> sorted.edges,
         adjacency |-> buildAdjacencyList(sorted.nodes, sorted.edges, opts.adjacencyOptions),
         rawAdjacency |-> rawAdjacency,
         cycles |-> condensed.cycles,
         meta |-> [nodeCount |-> Len(sorted.nodes),
                   edgeCount |-> Len(sorted.edges),
                   cycleCount |-> Len(condensed.cycles)]]

\* lines 445-469 of buildSkillsGraph, from the builder's graph on
finishGraph(builder, opts) ==
    LET rawAdjacency == buildAdjacencyList(builder.nodes, builder.edges, opts.adjacencyOptions)
        condensed == condenseCycles(builder.nodes, builder.edges)
        final == IF opts.condenseCycles THEN [nodes |-> condensed.nodes, edges |-> condensed.edges]
                 ELSE builder
        sorted == sortGraph(final.nodes, final.edges)
        cycles == IF opts.condenseCycles THEN condensed.cycles ELSE <<>>
    IN  [nodes |-> sorted.nodes,
         edges |-> sorted.edges,
         adjacency |-> buildAdjacencyList(sorted.nodes, sorted.edges, opts.adjacencyOptions),
         rawAdjacency |-> rawAdjacency,
         cycles |-> cycles,
         meta |-> [nodeCount |-> Len(sorted.nodes),
                   edgeCount |-> Len(sorted.edges),
                   cycleCount |-> Len(cycles)]]

buildSkillsGraph(raws, opts) == finishGraph(builderGraph(raws), opts)

(***************************************************************************)
(* Inputs                                                                  *)
(***************************************************************************)
MaxRecords == 3

\* a raw record as the parser hands it to buildSkillsGraph; the fields a
\* record does not carry are the empty string
MkRaw(name, type, moc, category, related, scripts, wikiLinks) ==
    [id |-> <<>>, name |-> name, slug |-> <<>>, title |-> <<>>,
     file |-> <<>>, path |-> <<>>, fileStem |-> <<>>,
     type |-> type, moc |-> moc, category |-> category, status |-> <<>>,
     related |-> related, scripts |-> scripts, wikiLinks |-> wikiLinks,
     aliases |-> <<>>]

SeqsUpTo(S, n) == UNION {[1..k -> S] : k \in 0..n}

sA == <<"a">>
sB == <<"b">>
sC == <<"c">>

\* a record named a of each of the six kinds that lists itself in related
SelfReferencing == {MkRaw(sA, k, FALSE, <<>>, <<sA>>, <<>>, <<>>) : k \in RecordKinds}

\* records that link a, b and a-b into chains and cycles, through documents
\* of kind skill and of kind script, with a side file, a missing target, a
\* wiki link that needs normalising, a name that collides with a after
\* normalising, a target listed twice in two spellings, and a name whose id
\* has a dash
Linking ==
    { MkRaw(sB, <<>>, FALSE, <<>>, <<sA>>, <<>>, <<>>),
      MkRaw(sB, SCRIPT, FALSE, <<>>, <<sA>>, <<>>, <<>>),
      MkRaw(sB, <<"H","o","o","k">>, FALSE, <<>>, << <<"a"," ","b">> >>,
            << <<"s","/","x",".","s","h">> >>, <<>>),
      MkRaw(<<"A">>, COMMAND, FALSE, <<"k">>, << <<"z">>, <<"b">>, <<"B">> >>, <<>>, <<>>),
      MkRaw(<<"a"," ","b">>, <<>>, TRUE, <<>>, <<sB, sA, <<"a","-","b","-","c">> >>,
            <<>>, << <<"B">> >>) }

RecordPool == SelfReferencing \cup Linking

DefaultAdjacencyOptions ==
    [includeGhost |-> FALSE, includeScripts |-> FALSE, includeCycles |-> FALSE]

NoGraph == [nodes |-> <<>>, edges |-> <<>>, adjacency |-> <<>>, rawAdjacency |-> <<>>,
            cycles |-> <<>>, meta |-> [nodeCount |-> -1, edgeCount |-> -1, cycleCount |-> -1]]

NoVerdict == [found |-> FALSE, matchedBy |-> "none", id |-> <<>>, displayName |-> <<>>]

\* the variables of the resolver study while another call is studied
ResolverIdle ==
    /\ known = <<>>
    /\ permuted = <<>>
    /\ probe = <<>>
    /\ verdict = NoVerdict
    /\ verdictP = NoVerdict

\* the variables of the normaliser study while another call is studied
NormalizerIdle ==
    /\ text = <<>>
    /\ once = <<>>
    /\ twice = <<>>

\* an argument or a result of a call that is not made
NotCalled == [t |-> "not-called"]

\* the variables of the validator study while another call is studied
SchemaIdle ==
    /\ fmArg = NotCalled
    /\ setArg = NotCalled
    /\ optArg = NotCalled
    /\ outcome = NotCalled

\* the variables of the adapter study while another call is studied
AdapterIdle ==
    /\ disk = NotCalled
    /\ request = NotCalled
    /\ answers = NotCalled
    /\ fsOptions = NotCalled
    /\ fsOutcome = NotCalled

\* the variables of the health study while another call is studied
HealthIdle ==
    /\ adapter = NotCalled
    /\ run = NotCalled
    /\ calls = <<>>
    /\ abortRequested = FALSE
    /\ mdFiles = <<>>
    /\ report = NotCalled

\* the variables of the graph study while another call is studied
GraphIdle ==
    /\ rawSkills = <<>>
    /\ options = [condenseCycles |-> TRUE, adjacencyOptions |-> DefaultAdjacencyOptions]
    /\ built = [nodes |-> <<>>, edges |-> <<>>]
    /\ graph = NoGraph
    /\ graph2 = NoGraph

Init ==
    /\ pc = "ready"
    /\ rawSkills \in SeqsUpTo(RecordPool, MaxRecords)
    /\ options \in [condenseCycles : BOOLEAN, adjacencyOptions : {DefaultAdjacencyOptions}]
    /\ built = [nodes |-> <<>>, edges |-> <<>>]
    /\ graph = NoGraph
    /\ graph2 = NoGraph
    /\ ResolverIdle
    /\ NormalizerIdle
    /\ SchemaIdle
    /\ HealthIdle
    /\ AdapterIdle

\* const result = buildSkillsGraph(rawSkills, options)
Build ==
    /\ pc = "ready"
    /\ built' = builderGraph(rawSkills)
    /\ graph' = finishGraph(built', options)
    /\ pc' = "done"
    /\ UNCHANGED <<rawSkills, options, graph2, resolverVars, normalizerVars, schemaVars, healthVars, adapterVars>>

Next == Build

Spec == Init /\ [][Next]_vars

(***************************************************************************)
(* Two calls in a row on the same arguments                                *)
(***************************************************************************)
Reverse(list) == [i \in DOMAIN list |-> list[Len(list) + 1 - i]]

\* the second call finds the caller's list reversed by the first call
CallBuild_SecondInputReversed ==
    /\ pc \in {"ready", "done"}
    /\ built' = builderGraph(IF pc = "ready" THEN rawSkills ELSE Reverse(rawSkills))
    /\ \E result \in {finishGraph(built', options)} :
          IF pc = "ready"
          THEN graph' = result /\ graph2' = graph2 /\ pc' = "done"
          ELSE graph2' = result /\ graph' = graph /\ pc' = "again"
    /\ UNCHANGED <<rawSkills, options, resolverVars, normalizerVars, schemaVars, healthVars, adapterVars>>

\* const first = buildSkillsGraph(rawSkills, options) and then
\* const again = buildSkillsGraph(rawSkills, options): a call leaves
\* rawSkills and options as they were and keeps no state of its own; built
\* is the builder's graph of the latest call
CallBuild ==
    /\ pc \in {"ready", "done"}
    /\ built' = builderGraph(rawSkills)
    /\ \E result \in {finishGraph(built', options)} :
          IF pc = "ready"
          THEN graph' = result /\ graph2' = graph2 /\ pc' = "done"
          ELSE graph2' = result /\ graph' = graph /\ pc' = "again"
    /\ UNCHANGED <<rawSkills, options, resolverVars, normalizerVars, schemaVars, healthVars, adapterVars>>

\* the records of the two-call study: the linking records and the document
\* of kind skill that lists itself
TwicePool == Linking \cup {r \in SelfReferencing : r.type = SKILL}

InitTwice ==
    /\ pc = "ready"
    /\ rawSkills \in SeqsUpTo(TwicePool, MaxRecords)
    /\ options \in [condenseCycles : BOOLEAN, adjacencyOptions : {DefaultAdjacencyOptions}]
    /\ built = [nodes |-> <<>>, edges |-> <<>>]
    /\ graph = NoGraph
    /\ graph2 = NoGraph
    /\ ResolverIdle
    /\ NormalizerIdle
    /\ SchemaIdle
    /\ HealthIdle
    /\ AdapterIdle

NextTwice == CallBuild

SpecTwice == InitTwice /\ [][NextTwice]_vars

(***************************************************************************)
(* Vocabulary of the properties                                            *)
(***************************************************************************)
Done == pc = "done"

Condensed == Done /\ options.condenseCycles

NodeIds(g) == {g.nodes[i].id : i \in DOMAIN g.nodes}

NodesOf(g) == Range(g.nodes)

EdgesOf(g) == Range(g.edges)

EdgePairs(g) == {<<e.source, e.target>> : e \in EdgesOf(g)}

RECURSIVE TransitiveClosure(_)
TransitiveClosure(R) ==
    LET R2 == R \cup {<<pq[1][1], pq[2][2]>> : pq \in {x \in R \X R : x[1][2] = x[2][1]}}
    IN  IF R2 = R THEN R ELSE TransitiveClosure(R2)

Skills == parseSkillInput(rawSkills)

SkillIds == {Skills[i].id : i \in DOMAIN Skills}

Supernodes == {n \in NodesOf(graph) : n.type = CYCLE}

\* C1: every edge of the returned graph has a source and a target that are
\* ids of nodes of the returned node list, with condensation on or off
C1_EdgeEndpointsExist ==
    Done => \A e \in EdgesOf(graph) :
                e.source \in NodeIds(graph) /\ e.target \in NodeIds(graph)

\* an edge was rewritten onto a supernode and another one reaches a ghost
C1_Witness ==
    /\ Condensed
    /\ \E e \in EdgesOf(graph) : StartsWith(e.source, CYCLE \o <<":">>)
    /\ \E e \in EdgesOf(graph) : StartsWith(e.target, GHOST_PREFIX)
    /\ \E e \in EdgesOf(graph) : StartsWith(e.target, CYCLE \o <<":">>)

\* C2: with condensation enabled no edge of the returned graph has its
\* source equal to its target
C2_NoSelfLoopEdge ==
    Condensed => \A e \in EdgesOf(graph) : e.source # e.target

\* the nodes that lie on a cycle of the builder's graph with another node
InLargerCycle(id) ==
    LET reach == TransitiveClosure(EdgePairs(built))
    IN  \E other \in NodeIds(built) :
            other # id /\ <<id, other>> \in reach /\ <<other, id>> \in reach

\* C3: with condensation enabled a record that lists itself in related and
\* is in no larger cycle is replaced by one supernode with exactly that
\* record's id as members and the label cycle(1), whatever its kind
C3_SelfReferenceBecomesSupernode ==
    Condensed =>
        \A id \in SkillIds :
            (/\ \E e \in EdgesOf(built) : e.source = id /\ e.target = id /\ e.kind = RELATED
             /\ ~InLargerCycle(id))
            => /\ id \notin NodeIds(graph)
               /\ Cardinality({n \in Supernodes : id \in Range(n.members)}) = 1
               /\ \A n \in Supernodes :
                    id \in Range(n.members) =>
                        n.members = <<id>> /\ n.label = cycleLabel(1)

\* C4: with condensation enabled the returned graph has no directed cycle
C4_Acyclic ==
    Condensed =>
        \A id \in NodeIds(graph) : <<id, id>> \notin TransitiveClosure(EdgePairs(graph))

(***************************************************************************)
(* The eligible sub-graph of the builder's graph, stated without the       *)
(* condenser: mutual reachability along edges between eligible nodes       *)
(***************************************************************************)
EligibleIds == {n.id : n \in {m \in NodesOf(built) : isEligible(m)}}

EligiblePairs == {p \in EdgePairs(built) : p[1] \in EligibleIds /\ p[2] \in EligibleIds}

EligibleReach == TransitiveClosure(EligiblePairs)

MemberIds == UNION {Range(n.members) : n \in Supernodes}

SameSupernode(u, v) == \E n \in Supernodes : u \in Range(n.members) /\ v \in Range(n.members)

\* C5: with condensation enabled the member lists are exactly the
\* nontrivial strongly connected components of the eligible sub-graph: two
\* eligible nodes share a supernode iff each reaches the other along edges
\* between eligible nodes; an eligible node is absorbed iff its component
\* has another node or it has an edge to itself; only eligible nodes are
\* members; member lists are disjoint; and the returned nodes are the
\* builder's nodes minus the members plus the supernodes
C5_SupernodesAreComponents ==
    Condensed =>
        /\ MemberIds \subseteq EligibleIds
        /\ LET reach == EligibleReach
           IN  /\ \A u \in EligibleIds : \A v \in EligibleIds \ {u} :
                     SameSupernode(u, v) <=> (<<u, v>> \in reach /\ <<v, u>> \in reach)
               /\ \A u \in EligibleIds :
                     u \in MemberIds <=>
                         \/ \E v \in EligibleIds \ {u} :
                               <<u, v>> \in reach /\ <<v, u>> \in reach
                         \/ <<u, u>> \in EdgePairs(built)
        /\ \A n \in Supernodes : \A m \in Supernodes :
              n # m => Range(n.members) \cap Range(m.members) = {}
        /\ \A n \in Supernodes : Cardinality(Range(n.members)) = Len(n.members)
        /\ NodesOf(graph) \ Supernodes = {n \in NodesOf(built) : n.id \notin MemberIds}
        /\ \A i \in DOMAIN graph.cycles :
              \E n \in Supernodes : n.id = graph.cycles[i].id
                                    /\ n.members = graph.cycles[i].members
        /\ Len(graph.cycles) = Cardinality(Supernodes)

\* a component of three nodes next to an eligible node that stays outside,
\* and a component of two with a third node that only leads into it
C5_Witness ==
    /\ Condensed
    /\ \E n \in Supernodes : Len(n.members) >= 2
    /\ \E u \in EligibleIds \ MemberIds : \E v \in MemberIds : <<u, v>> \in EligibleReach

\* C6: no two nodes of the returned graph share an id; document ids, ghost
\* ids, side-file ids and supernode ids are of four different shapes; the
\* supernode ids are exactly cycle:1 .. cycle:K
C6_UniqueNodeIds ==
    Done =>
        LET skillIds == SkillIds
            supernodes == Supernodes
        IN  /\ \A i \in DOMAIN graph.nodes : \A j \in DOMAIN graph.nodes :
                  i # j => graph.nodes[i].id # graph.nodes[j].id
            /\ \A n \in NodesOf(graph) :
                  /\ n.isGhost <=> StartsWith(n.id, GHOST_PREFIX)
                  /\ n.type = CYCLE <=> StartsWith(n.id, CYCLE \o <<":">>)
                  /\ "scriptPath" \in DOMAIN n <=> StartsWith(n.id, SCRIPT \o <<":">>)
                  /\ n.id \in skillIds <=>
                        ~(n.isGhost \/ n.type = CYCLE \/ "scriptPath" \in DOMAIN n)
            /\ {n.id : n \in supernodes} = {cycleId(k) : k \in 1..Cardinality(supernodes)}

\* a returned graph with a document, a ghost, a side file and a supernode,
\* built from records of which two have the same id
C6_Witness ==
    /\ Condensed
    /\ Cardinality(SkillIds) < Len(Skills)
    /\ \E n \in NodesOf(graph) : n.isGhost
    /\ \E n \in NodesOf(graph) : "scriptPath" \in DOMAIN n
    /\ \E n \in NodesOf(graph) : n.id \in SkillIds
    /\ Supernodes # {}

\* (source, target, kind) of a is at most that of b, component by component
TupleLeq(a, b) ==
    LET bySource == localeCompare(a.source, b.source)
        byTarget == localeCompare(a.target, b.target)
    IN  \/ bySource < 0
        \/ bySource = 0 /\ byTarget < 0
        \/ bySource = 0 /\ byTarget = 0 /\ localeCompare(a.kind, b.kind) <= 0

NodesAscendingById ==
    \A i \in DOMAIN graph.nodes : \A j \in DOMAIN graph.nodes :
        i < j => localeCompare(graph.nodes[i].id, graph.nodes[j].id) <= 0

\* C7 as stated: nodes ascending by id and edges ascending by the tuple
\* (source, target, kind) compared component by component
C7_SortedByTuple ==
    Done =>
        /\ NodesAscendingById
        /\ \A i \in DOMAIN graph.edges : \A j \in DOMAIN graph.edges :
              i < j => TupleLeq(graph.edges[i], graph.edges[j])

\* C7 amended: nodes ascending by id and edges ascending by their id, the
\* string source=>target::kind, compared as one string
C7_SortedById ==
    Done =>
        /\ NodesAscendingById
        /\ \A i \in DOMAIN graph.edges : \A j \in DOMAIN graph.edges :
              i < j => localeCompare(graph.edges[i].id, graph.edges[j].id) <= 0
        /\ \A e \in EdgesOf(graph) : e.id = edgeKey(e.source, e.target, e.kind)

\* the sort moved nodes and edges, and the order by id is not the order by
\* tuple
C7_Witness ==
    /\ Done
    /\ Len(graph.nodes) >= 3
    /\ \E i \in DOMAIN graph.edges : \E j \in DOMAIN graph.edges :
          i < j /\ ~TupleLeq(graph.edges[i], graph.edges[j])
    /\ \E i \in DOMAIN built.nodes : \E j \in DOMAIN built.nodes :
          i < j /\ localeCompare(built.nodes[i].id, built.nodes[j].id) > 0
    /\ \E i \in DOMAIN built.edges : \E j \in DOMAIN built.edges :
          i < j /\ localeCompare(built.edges[i].id, built.edges[j].id) > 0

\* the default resolver of the build
ResolverOf(skills) == createWikiLinkResolver(collectKnownSkills(skills))

\* the references of the parsed skills: source id, raw target, edge kind
ReferencesOf(skills) ==
    UNION {
        {[source |-> skills[i].id, target |-> skills[i].related[k], kind |-> RELATED] :
            k \in DOMAIN skills[i].related}
        \cup
        {[source |-> skills[i].id, target |-> skills[i].wikiLinks[k], kind |-> WIKI] :
            k \in DOMAIN skills[i].wikiLinks}
        : i \in DOMAIN skills}

\* the id a builder id has among these supernodes: its supernode's, or itself
FinalIdIn(supernodes, id) ==
    IF \E s \in supernodes : id \in Range(s.members)
    THEN (CHOOSE s \in supernodes : id \in Range(s.members)).id
    ELSE id

\* C8: a reference that names the id of an input record resolves, and for
\* every reference that resolves to a record X the returned graph has no
\* ghost for it: X or the supernode that absorbed X is a node that is not a
\* ghost, the reference's edge points to it, and no unresolved: node stands
\* for the reference, whatever the order of the records
C8_NoGhostForKnownRecord ==
    Done =>
        LET skills == Skills
            skillIds == {skills[i].id : i \in DOMAIN skills}
            resolver == ResolverOf(skills)
            supernodes == Supernodes
            nodeIds == NodeIds(graph)
        IN  \A r \in ReferencesOf(skills) :
                LET v == resolve(resolver, r.target)
                    norm == normalizeSkillId(r.target)
                    src == FinalIdIn(supernodes, r.source)
                    tgt == FinalIdIn(supernodes, v.id)
                IN  /\ norm \in skillIds => v.found
                    /\ v.found =>
                        /\ v.id \in skillIds
                        /\ \E n \in NodesOf(graph) : n.id = tgt /\ ~n.isGhost
                        /\ ~StartsWith(tgt, GHOST_PREFIX)
                        /\ (src # tgt \/ ~options.condenseCycles) =>
                              \E e \in EdgesOf(graph) :
                                  e.source = src /\ e.target = tgt /\ e.kind = r.kind
                        /\ norm # <<>> => GHOST_PREFIX \o norm \notin nodeIds

\* a record refers, through a link that needs normalising, to a record that
\* comes later in the input, and another reference reaches a record that a
\* supernode absorbed
C8_Witness ==
    /\ Condensed
    /\ LET skills == Skills
           resolver == ResolverOf(skills)
           supernodes == Supernodes
       IN  /\ \E i \in DOMAIN skills : \E j \in DOMAIN skills :
                 /\ i < j
                 /\ \E k \in DOMAIN skills[i].wikiLinks :
                       /\ resolve(resolver, skills[i].wikiLinks[k]).id = skills[j].id
                       /\ resolve(resolver, skills[i].wikiLinks[k]).matchedBy = "normalized"
                       /\ \A h \in 1..(j - 1) : skills[h].id # skills[j].id
           /\ \E r \in ReferencesOf(skills) :
                 /\ resolve(resolver, r.target).found
                 /\ FinalIdIn(supernodes, resolve(resolver, r.target).id)
                       \in {n.id : n \in supernodes}
                 /\ FinalIdIn(supernodes, r.source) \notin {n.id : n \in supernodes}

\* the first parsed skill with this id
FirstSkill(id) ==
    Skills[CHOOSE i \in DOMAIN Skills :
              Skills[i].id = id /\ \A j \in DOMAIN Skills : Skills[j].id = id => i <= j]

\* C9: the node of an id that several records normalise to keeps the
\* label, kind, category and status of the first of these records
C9_FirstRecordWins ==
    Done =>
        \A n \in NodesOf(graph) :
            n.id \in SkillIds =>
                /\ n.label = FirstSkill(n.id).name
                /\ n.type = FirstSkill(n.id).type
                /\ n.category = FirstSkill(n.id).category
                /\ n.status = FirstSkill(n.id).status

Again == pc = "again"

NotCondensed == Done /\ ~options.condenseCycles

\* C12: with condenseCycles false the returned graph is the builder's graph
\* re-sorted: no node of kind cycle, the builder's nodes and edges each
\* present once with the same attributes and in ascending order of id,
\* cycles empty, meta.cycleCount 0, and adjacency equal to rawAdjacency
C12_DisabledIsBuilderOutput ==
    NotCondensed =>
        /\ \A n \in NodesOf(graph) : n.type # CYCLE
        /\ NodesOf(graph) = NodesOf(built)
        /\ Len(graph.nodes) = Len(built.nodes)
        /\ EdgesOf(graph) = EdgesOf(built)
        /\ Len(graph.edges) = Len(built.edges)
        /\ NodesAscendingById
        /\ \A i \in DOMAIN graph.edges : \A j \in DOMAIN graph.edges :
              i < j => localeCompare(graph.edges[i].id, graph.edges[j].id) <= 0
        /\ graph.cycles = <<>>
        /\ graph.meta = [nodeCount |-> Len(built.nodes),
                         edgeCount |-> Len(built.edges),
                         cycleCount |-> 0]
        /\ graph.adjacency = graph.rawAdjacency

\* condensation is off for a builder's graph that has a cycle to condense
\* and whose nodes the sort has to move
C12_Witness ==
    /\ NotCondensed
    /\ condenseCycles(built.nodes, built.edges).cycles # <<>>
    /\ graph.nodes # built.nodes
    /\ graph.edges # built.edges
    /\ \E i \in DOMAIN graph.adjacency : graph.adjacency[i].all # <<>>

(***************************************************************************)
(* The adjacency export under every combination of its three options       *)
(***************************************************************************)
MaxExported == 2

s2 == <<"2">>
s10 == <<"1","0">>

\* records whose graph has documents of kind skill, hook and script, side
\* files, ghosts, cycles, and ids that are array indices
AdjacencyPool ==
    { MkRaw(s10, <<>>, FALSE, <<>>, <<s2, <<"x">> >>, <<>>, <<>>),
      MkRaw(s2, <<>>, FALSE, <<>>, <<s10>>, <<>>, <<>>),
      MkRaw(sA, SCRIPT, FALSE, <<>>, <<>>, << <<"s","/","x",".","s","h">> >>, <<>>),
      MkRaw(sA, HOOK, FALSE, <<>>, <<sA>>, <<>>, <<>>),
      MkRaw(sB, <<"H","o","o","k">>, FALSE, <<>>, << <<"a"," ","b">> >>,
            << <<"s","/","x",".","s","h">> >>, <<>>) }

InitAdjacency ==
    /\ pc = "ready"
    /\ rawSkills \in SeqsUpTo(AdjacencyPool, MaxExported)
    /\ options \in [condenseCycles : BOOLEAN,
                    adjacencyOptions : [includeGhost : BOOLEAN,
                                        includeScripts : BOOLEAN,
                                        includeCycles : BOOLEAN]]
    /\ built = [nodes |-> <<>>, edges |-> <<>>]
    /\ graph = NoGraph
    /\ graph2 = NoGraph
    /\ ResolverIdle
    /\ NormalizerIdle
    /\ SchemaIdle
    /\ HealthIdle
    /\ AdapterIdle

NextAdjacency == Build

SpecAdjacency == InitAdjacency /\ [][NextAdjacency]_vars

\* the keys of the exported adjacency in the order of the object
AdjacencyKeys == [i \in DOMAIN graph.adjacency |-> graph.adjacency[i].key]

\* the four classes of nodes of the returned graph
SideFileNodes == {n \in NodesOf(graph) : "scriptPath" \in DOMAIN n}

GhostNodes == {n \in NodesOf(graph) : n.isGhost}

DocumentNodes == NodesOf(graph) \ (GhostNodes \cup SideFileNodes \cup Supernodes)

\* C13: the keys of the exported adjacency are the ids of the document
\* nodes of the returned graph, of any kind, plus the ghosts iff
\* includeGhost, the side files iff includeScripts and the supernodes iff
\* includeCycles, and they are emitted in ascending order
C13_KeysAreDocumentNodes ==
    Done =>
        LET flags == options.adjacencyOptions
            exported == DocumentNodes
                        \cup (IF flags.includeGhost THEN GhostNodes ELSE {})
                        \cup (IF flags.includeScripts THEN SideFileNodes ELSE {})
                        \cup (IF flags.includeCycles THEN Supernodes ELSE {})
            keys == AdjacencyKeys
        IN  /\ Range(keys) = {n.id : n \in exported}
            /\ \A i \in DOMAIN keys : \A j \in DOMAIN keys :
                  i < j => localeCompare(keys[i], keys[j]) < 0

\* C13, the order alone: the keys are emitted in ascending order
C13_KeysAscending ==
    Done =>
        \A i \in DOMAIN graph.adjacency : \A j \in DOMAIN graph.adjacency :
            i < j => localeCompare(graph.adjacency[i].key, graph.adjacency[j].key) < 0

\* C13, the default options alone: every document node has a key
C13_DefaultExportsEveryDocument ==
    (Done /\ options.adjacencyOptions = DefaultAdjacencyOptions) =>
        {n.id : n \in DocumentNodes} \subseteq Range(AdjacencyKeys)

MatchTiers == {"exact", "normalized", "filename-stem", "ghost"}

\* C28: every edge of kind related or wiki of the returned graph carries a
\* matchedBy among exact, normalized, filename-stem and ghost, and it is
\* ghost exactly when the target of the edge is a ghost node, with
\* condensation enabled too.
C28_EdgesCarryMatchedBy ==
    Done =>
        \A e \in EdgesOf(graph) :
            e.kind \in {RELATED, WIKI} =>
                /\ "matchedBy" \in DOMAIN e
                /\ e.matchedBy \in MatchTiers
                /\ e.matchedBy = "ghost" <=> \E n \in GhostNodes : n.id = e.target

\* the triples (source, target, kind) of a list of edges
TriplesOf(edges) == [i \in DOMAIN edges |-> <<edges[i].source, edges[i].target, edges[i].kind>>]

\* no triple occurs twice in the list
DistinctTriples(edges) ==
    \A i \in DOMAIN edges : \A j \in DOMAIN edges :
        TriplesOf(edges)[i] = TriplesOf(edges)[j] => i = j

\* the related and wiki references in the order the builder inserts them:
\* record by record, the related list and then the wiki links
RECURSIVE RefSeqOf(_)
RefSeqOf(skills) ==
    IF skills = <<>> THEN <<>>
    ELSE [k \in DOMAIN Head(skills).related |->
             [source |-> Head(skills).id, target |-> Head(skills).related[k], kind |-> RELATED]]
         \o [k \in DOMAIN Head(skills).wikiLinks |->
             [source |-> Head(skills).id, target |-> Head(skills).wikiLinks[k], kind |-> WIKI]]
         \o RefSeqOf(Tail(skills))

Least(S) == CHOOSE n \in S : \A m \in S : n <= m

\* the positions of the references whose insertion has the triple of edge e
InsertionsOf(e, refs, resolver) ==
    {k \in DOMAIN refs :
        /\ refs[k].source = e.source
        /\ refs[k].kind = e.kind
        /\ resolveTarget(refs[k].target, resolver).id = e.target}

\* the positions of the builder edges that condensation rewrites to the triple of e
RewritesOf(e, supernodes) ==
    {i \in DOMAIN built.edges :
        /\ FinalIdIn(supernodes, built.edges[i].source) = e.source
        /\ FinalIdIn(supernodes, built.edges[i].target) = e.target
        /\ built.edges[i].kind = e.kind}

Collapsed == options.condenseCycles /\ Supernodes # {}

\* C29: no two edges share (source, target, kind), in the builder's edge
\* list and in the returned one; every reference and every builder edge keeps
\* an edge of its own kind; and of several insertions of one triple the first
\* is the one kept (its targetRaw and matchedBy in the builder, its id as
\* collapsedFrom after condensation)
C29_TriplesDistinctFirstKept ==
    Done =>
        LET skills == Skills
            resolver == ResolverOf(skills)
            refs == RefSeqOf(skills)
            supernodes == Supernodes
        IN  /\ DistinctTriples(built.edges)
            /\ DistinctTriples(graph.edges)
            /\ \A k \in DOMAIN refs :
                   \E e \in EdgesOf(built) :
                       /\ e.source = refs[k].source
                       /\ e.kind = refs[k].kind
                       /\ e.target = resolveTarget(refs[k].target, resolver).id
            /\ \A b \in EdgesOf(built) :
                   LET src == FinalIdIn(supernodes, b.source)
                       tgt == FinalIdIn(supernodes, b.target)
                   IN  (src # tgt \/ ~Collapsed) =>
                           \E e \in EdgesOf(graph) :
                               e.source = src /\ e.target = tgt /\ e.kind = b.kind
            /\ \A e \in EdgesOf(built) :
                   e.kind \in {RELATED, WIKI} =>
                       LET hits == InsertionsOf(e, refs, resolver)
                           first == resolveTarget(refs[Least(hits)].target, resolver)
                       IN  /\ hits # {}
                           /\ e.targetRaw = first.raw
                           /\ e.matchedBy = first.matchedBy
            /\ Collapsed =>
                   \A e \in EdgesOf(graph) :
                       LET hits == RewritesOf(e, supernodes)
                       IN  /\ hits # {}
                           /\ e.collapsedFrom = built.edges[Least(hits)].id

\* two references of one record were inserted with the same triple and
\* different raw targets
C29_BuilderDuplicate ==
    /\ Done
    /\ \E e \in EdgesOf(built) :
           /\ e.kind \in {RELATED, WIKI}
           /\ \E k1 \in InsertionsOf(e, RefSeqOf(Skills), ResolverOf(Skills)) :
              \E k2 \in InsertionsOf(e, RefSeqOf(Skills), ResolverOf(Skills)) :
                  Trim(RefSeqOf(Skills)[k1].target) # Trim(RefSeqOf(Skills)[k2].target)

\* two builder edges were rewritten to one triple, the later one dropped, and
\* two returned edges join the same nodes with different kinds
C29_Witness ==
    /\ Done
    /\ Collapsed
    /\ \E e \in EdgesOf(graph) : Cardinality(RewritesOf(e, Supernodes)) > 1
    /\ \E e \in EdgesOf(graph) : \E f \in EdgesOf(graph) :
           e.source = f.source /\ e.target = f.target /\ e.kind # f.kind
    /\ C29_BuilderDuplicate

(***************************************************************************)
(* The resolver on its own: two resolvers are built from the same entries  *)
(* inserted in two orders, and both resolve the same target                *)
(***************************************************************************)
MaxKnown == 3

\* an entry as createWikiLinkResolver receives it
MkEntry(name, aliases, fileStem) ==
    [id |-> <<>>, name |-> name, slug |-> <<>>, file |-> <<>>, path |-> <<>>,
     fileStem |-> fileStem, aliases |-> aliases]

EntryPool ==
    { MkEntry(sA, <<>>, <<>>),
      [MkEntry(sB, <<sA>>, <<>>) EXCEPT !.id = <<"X"," ","y">>],
      MkEntry(sC, << <<"A"," ","b">> >>, <<"z">>),
      MkEntry(<<"a","-","b">>, <<>>, <<>>),
      MkEntry(<<"B">>, <<>>, <<"a">>) }

Probes ==
    { <<>>, sA, <<"A">>, <<" ","b"," ">>, <<"a"," ","b">>, <<"Z",".","m","d">>,
      <<"A"," ","b">>, <<"x">>, <<"-">>, <<"X"," ","y">> }

PermutationsOf(list) ==
    {[i \in DOMAIN list |-> list[p[i]]] :
        p \in {q \in [DOMAIN list -> DOMAIN list] :
                  \A i \in DOMAIN list : \A j \in DOMAIN list : q[i] = q[j] => i = j}}

InitResolver ==
    /\ pc = "ready"
    /\ known \in SeqsUpTo(EntryPool, MaxKnown)
    /\ permuted \in PermutationsOf(known)
    /\ probe \in Probes
    /\ verdict = NoVerdict
    /\ verdictP = NoVerdict
    /\ GraphIdle
    /\ NormalizerIdle
    /\ SchemaIdle
    /\ HealthIdle
    /\ AdapterIdle

\* createWikiLinkResolver(known).resolve(probe) and
\* createWikiLinkResolver(permuted).resolve(probe)
Resolve ==
    /\ pc = "ready"
    /\ verdict' = resolve(createWikiLinkResolver(known), probe)
    /\ verdictP' = resolve(createWikiLinkResolver(permuted), probe)
    /\ pc' = "done"
    /\ UNCHANGED <<graphVars, known, permuted, probe, normalizerVars, schemaVars, healthVars, adapterVars>>

\* resolver.resolve(probe) called once more on the first resolver, which
\* resolve only reads
ResolveAgain ==
    /\ pc = "done"
    /\ verdict' = resolve(createWikiLinkResolver(known), probe)
    /\ pc' = "again"
    /\ UNCHANGED <<graphVars, known, permuted, probe, verdictP, normalizerVars, schemaVars, healthVars, adapterVars>>

NextResolver == Resolve \/ ResolveAgain

SpecResolver == InitResolver /\ [][NextResolver]_vars

\* C10: the resolver built from a permutation of the same entries returns
\* the same verdict for every target; in particular a name that is also
\* another entry's alias resolves to the same id in both orders
C10_VerdictIndependentOfOrder ==
    Done => verdict = verdictP

\* the trimmed names and aliases of an entry
NamesOfEntry(e) ==
    {Trim(n) : n \in {e.name, e.id, e.slug} \cup Range(e.aliases)} \ {<<>>}

\* the id of an entry: its id, else its name, normalized
IdOfEntry(e) == normalizeDashSeparated(Or(e.id, e.name))

\* the normalized file stem of an entry, taken from its name when it has no
\* file
StemOfEntry(e) == normalizeDashSeparated(Or(e.fileStem, safeFileStem(e.name)))

\* the ids of the known entries that satisfy a test
IdsWhere(Test(_)) == {IdOfEntry(known[i]) : i \in {j \in DOMAIN known : Test(known[j])}}

\* the verdict the tiers prescribe for the probe: its tier and, for a hit,
\* the ids it may carry
TierVerdict ==
    LET target == Trim(probe)
        normalizedTarget == normalizeDashSeparated(target)
        exactIds == IdsWhere(LAMBDA e : target \in NamesOfEntry(e))
        normalizedIds ==
            IdsWhere(LAMBDA e : \/ IdOfEntry(e) = normalizedTarget
                               \/ \E n \in NamesOfEntry(e) :
                                     normalizeDashSeparated(n) = normalizedTarget)
        stemIds == IdsWhere(LAMBDA e : StemOfEntry(e) = normalizedTarget)
        unknown == <<"u","n","k","n","o","w","n">>
        prefix == <<"u","n","r","e","s","o","l","v","e","d",":">>
    IN  IF target = <<>>
        THEN [matchedBy |-> "ghost", ids |-> {prefix \o unknown}, names |-> {unknown}]
        ELSE IF exactIds # {} THEN [matchedBy |-> "exact", ids |-> exactIds]
        ELSE IF normalizedIds # {} THEN [matchedBy |-> "normalized", ids |-> normalizedIds]
        ELSE IF stemIds # {} THEN [matchedBy |-> "filename-stem", ids |-> stemIds]
        ELSE [matchedBy |-> "ghost",
              ids |-> {prefix \o (IF normalizedTarget = <<>> THEN unknown
                                   ELSE normalizedTarget)},
              names |-> {target}]

\* the verdict follows the tiers
FollowsTiers(v) ==
    /\ v.matchedBy = TierVerdict.matchedBy
    /\ v.id \in TierVerdict.ids
    /\ v.found = (v.matchedBy # "ghost")
    /\ v.matchedBy = "ghost" => v.displayName \in TierVerdict.names

\* C27: the verdict is exact when the trimmed target is a known name, id or
\* alias, else normalized when its normalized form is in the normalized
\* index, else filename-stem when it is in the stem index, else a ghost
\* unresolved:<normalized target, or unknown> labelled with the trimmed
\* target; an empty target gives unresolved:unknown; a second call with the
\* same target returns the same verdict.
C27_TiersInOrder ==
    /\ [](pc \in {"done", "again"} => FollowsTiers(verdict))
    /\ [][pc = "done" /\ pc' = "again" => verdict' = verdict]_vars

\* a second call returned normalized for a target whose normalized form is
\* also the stem of another entry
C27_Witness ==
    /\ pc = "again"
    /\ verdict.matchedBy = "normalized"
    /\ \E i \in DOMAIN known :
          /\ StemOfEntry(known[i]) = normalizeDashSeparated(probe)
          /\ IdOfEntry(known[i]) # verdict.id

(***************************************************************************)
(* The normaliser on its own: normalizeSkillId and its own result          *)
(***************************************************************************)
MaxText == 6

\* one character of each class the normaliser tells apart: upper case,
\* lower case, digit, the dot of the suffix, white space, other
TextAlphabet == {"M", "d", "1", ".", " ", "-"}

InitNormalizer ==
    /\ pc = "ready"
    /\ text \in SeqsUpTo(TextAlphabet, MaxText)
    /\ once = <<>>
    /\ twice = <<>>
    /\ GraphIdle
    /\ ResolverIdle
    /\ SchemaIdle
    /\ HealthIdle
    /\ AdapterIdle

\* const once = normalizeSkillId(text); const twice = normalizeSkillId(once)
Normalize ==
    /\ pc = "ready"
    /\ once' = normalizeSkillId(text)
    /\ twice' = normalizeSkillId(once')
    /\ pc' = "done"
    /\ UNCHANGED <<text, graphVars, resolverVars, schemaVars, healthVars, adapterVars>>

NextNormalizer == Normalize

SpecNormalizer == InitNormalizer /\ [][NextNormalizer]_vars

\* empty, or runs of [a-z0-9] separated by single '-' with none at either
\* end; in particular no trailing .md
IsDashSeparated(s) ==
    \/ s = <<>>
    \/ /\ \A i \in DOMAIN s : s[i] \in AlnumSet \cup {"-"}
       /\ s[1] # "-"
       /\ s[Len(s)] # "-"
       /\ \A i \in 1..(Len(s) - 1) : ~(s[i] = "-" /\ s[i + 1] = "-")
       /\ ~EndsWith(s, <<".", "m", "d">>)

\* C14: normalizeSkillId(normalizeSkillId(s)) = normalizeSkillId(s), and
\* every result is empty or runs of [a-z0-9] separated by single '-' with no
\* leading or trailing '-' and no trailing .md
C14_NormalizeIdempotent ==
    Done => twice = once /\ IsDashSeparated(once)

\* a text with an upper-case letter, a separator run and the suffix, which
\* the normaliser changed to a dashed id
C14_Witness ==
    /\ Done
    /\ EndsWith(ToLower(Trim(text)), <<".", "m", "d">>)
    /\ \E i \in DOMAIN text : IsUpper(text[i])
    /\ \E i \in DOMAIN once : once[i] = "-"
    /\ once # text

(***************************************************************************)
(* schema.js: JavaScript values of any type, as the validator meets them   *)
(***************************************************************************)
JsUndefined == [t |-> "undefined"]

JsNull == [t |-> "null"]

JsBoolean(b) == [t |-> "boolean", b |-> b]

JsNumber(n) == [t |-> "number", n |-> n]

JsBigInt(n) == [t |-> "bigint", n |-> n]

JsString(chars) == [t |-> "string", s |-> chars]

JsArray(items) == [t |-> "array", items |-> items]

\* a plain object as the list of its own entries <<key, value>> in
\* property order
JsObject(entries) == [t |-> "object", entries |-> entries]

\* the typeof operator
typeof(v) ==
    IF v.t \in {"null", "array", "object"} THEN "object" ELSE v.t

\* ToBoolean: what !v and v || w test
Truthy(v) ==
    CASE v.t \in {"undefined", "null"} -> FALSE
      [] v.t = "boolean" -> v.b
      [] v.t \in {"number", "bigint"} -> v.n # 0
      [] v.t = "string" -> v.s # <<>>
      [] OTHER -> TRUE

\* the property keys of an array with at most four elements
IndexKeys == <<"0", "1", "2", "3">>

\* Object.entries(v) of an object, an array or a primitive
Entries(v) ==
    CASE v.t = "object" -> v.entries
      [] v.t = "array" -> [i \in DOMAIN v.items |-> <<IndexKeys[i], v.items[i]>>]
      [] v.t = "string" -> [i \in DOMAIN v.s |-> <<IndexKeys[i], JsString(<<v.s[i]>>)>>]
      [] OTHER -> <<>>

\* v[key] for one of the keys the validator reads (never an index, length
\* or a method): undefined on everything but an object that has the key.
\* Reading a property of undefined or null throws, which the callers test
\* before they read.
Get(v, key) ==
    IF v.t = "object" /\ \E i \in DOMAIN v.entries : v.entries[i][1] = key
    THEN v.entries[CHOOSE i \in DOMAIN v.entries : v.entries[i][1] = key][2]
    ELSE JsUndefined

\* v is undefined or null
IsNullish(v) == v.t \in {"undefined", "null"}

\* JSON.stringify(v) throws a TypeError on a BigInt anywhere in v
RECURSIVE StringifyThrows(_)
StringifyThrows(v) ==
    CASE v.t = "bigint" -> TRUE
      [] v.t = "array" -> \E i \in DOMAIN v.items : StringifyThrows(v.items[i])
      [] v.t = "object" -> \E i \in DOMAIN v.entries : StringifyThrows(v.entries[i][2])
      [] OTHER -> FALSE

(***************************************************************************)
(* schema.js: the field table                                              *)
(***************************************************************************)
VALID_TYPES == {SKILL, SUBAGENT, HOOK, COMMAND, MOC, SCRIPT}

STABLE == <<"s","t","a","b","l","e">>

VALID_STATUSES ==
    { STABLE, <<"d","r","a","f","t">>, <<"d","e","p","r","e","c","a","t","e","d">>,
      <<"e","x","p","e","r","i","m","e","n","t","a","l">>,
      <<"a","r","c","h","i","v","e","d">> }

isNonEmptyString(v) == v.t = "string" /\ Trim(v.s) # <<>>

isStringArray(v) ==
    v.t = "array" /\ \A i \in DOMAIN v.items : v.items[i].t = "string"

TrueText == <<"t","r","u","e">>

FalseText == <<"f","a","l","s","e">>

isBooleanish(v) ==
    v.t = "boolean" \/ (v.t = "string" /\ v.s \in {TrueText, FalseText})

toBool(v) ==
    IF v.t = "boolean" THEN v
    ELSE IF v.t = "string" /\ v.s = TrueText THEN JsBoolean(TRUE)
    ELSE IF v.t = "string" /\ v.s = FalseText THEN JsBoolean(FALSE)
    ELSE JsNull

\* String.prototype.split(','): the pieces between the commas
RECURSIVE SplitOnComma(_, _)
SplitOnComma(chars, piece) ==
    IF chars = <<>> THEN <<piece>>
    ELSE IF Head(chars) = "," THEN <<piece>> \o SplitOnComma(Tail(chars), <<>>)
    ELSE SplitOnComma(Tail(chars), Append(piece, Head(chars)))

\* v.split(',').map((s) => s.trim()).filter(Boolean)
splitTags(chars) ==
    LET pieces == SplitOnComma(chars, <<>>)
        trimmed == [i \in DOMAIN pieces |-> Trim(pieces[i])]
        kept == FilterNonEmpty(trimmed)
    IN  [i \in DOMAIN kept |-> JsString(kept[i])]

\* Array.prototype.join(',') of strings already converted
RECURSIVE JoinWithComma(_)
JoinWithComma(parts) ==
    IF parts = <<>> THEN <<>>
    ELSE IF Len(parts) = 1 THEN parts[1]
    ELSE parts[1] \o <<",">> \o JoinWithComma(Tail(parts))

\* String(v) of a value that is neither undefined nor null at the top
RECURSIVE ToStringJs(_)
ToStringJs(v) ==
    CASE v.t = "string" -> v.s
      [] v.t \in {"number", "bigint"} -> NatToString(v.n)
      [] v.t = "boolean" -> IF v.b THEN TrueText ELSE FalseText
      [] v.t = "undefined" -> <<"u","n","d","e","f","i","n","e","d">>
      [] v.t = "null" -> <<"n","u","l","l">>
      [] v.t = "array" ->
            JoinWithComma([i \in DOMAIN v.items |->
                              IF IsNullish(v.items[i]) THEN <<>>
                              ELSE ToStringJs(v.items[i])])
      [] OTHER -> <<"[","o","b","j","e","c","t"," ","O","b","j","e","c","t","]">>

\* the keys of FIELD_SPECS in the order of Object.entries
FieldOrder ==
    <<"name", "type", "category", "tags", "status", "version", "related",
      "scripts", "moc", "description", "title", "phase">>

\* spec.required
FieldRequired(field) == field = "name"

\* spec.type, the word used in the warning
FieldType(field) ==
    CASE field \in {"tags", "related", "scripts"} -> "array"
      [] field = "moc" -> "boolean"
      [] OTHER -> "string"

\* spec.validate(v)
FieldValidate(field, v) ==
    CASE field \in {"name", "category"} -> isNonEmptyString(v)
      [] field = "type" -> isNonEmptyString(v) /\ ToLower(v.s) \in VALID_TYPES
      [] field = "status" -> isNonEmptyString(v) /\ ToLower(v.s) \in VALID_STATUSES
      [] field \in {"tags", "related", "scripts"} -> isStringArray(v)
      [] field = "version" -> v.t \in {"string", "number"}
      [] field = "moc" -> isBooleanish(v)
      [] OTHER -> v.t = "string"

\* whether the entry of the field has a coerce function
FieldHasCoerce(field) ==
    field \in {"type", "tags", "status", "version", "related", "scripts", "moc"}

\* spec.coerce(v)
FieldCoerce(field, v) ==
    CASE field = "type" ->
            IF isNonEmptyString(v) /\ ToLower(v.s) \in VALID_TYPES
            THEN JsString(ToLower(v.s)) ELSE JsString(SKILL)
      [] field = "status" ->
            IF isNonEmptyString(v) /\ ToLower(v.s) \in VALID_STATUSES
            THEN JsString(ToLower(v.s)) ELSE JsString(STABLE)
      [] field = "tags" ->
            IF isStringArray(v) THEN v
            ELSE IF v.t = "string" THEN JsArray(splitTags(v.s))
            ELSE JsArray(<<>>)
      [] field \in {"related", "scripts"} ->
            IF isStringArray(v) THEN v
            ELSE IF v.t = "string" THEN JsArray(<<v>>)
            ELSE JsArray(<<>>)
      [] field = "version" -> JsString(IF IsNullish(v) THEN <<>> ELSE ToStringJs(v))
      [] field = "moc" -> toBool(v)
      [] OTHER -> v

\* whether the entry of the field has a default
FieldHasDefault(field) ==
    field \in {"type", "tags", "status", "version", "related", "scripts", "moc"}

\* spec.default
FieldDefault(field) ==
    CASE field = "type" -> JsString(SKILL)
      [] field = "status" -> JsString(STABLE)
      [] field = "version" -> JsString(<<>>)
      [] field = "moc" -> JsBoolean(FALSE)
      [] OTHER -> JsArray(<<>>)

\* key in FIELD_SPECS: the twelve fields and what a plain object inherits
InheritedKeys ==
    {"constructor", "toString", "valueOf", "hasOwnProperty", "isPrototypeOf",
     "propertyIsEnumerable", "toLocaleString", "__proto__"}

InFieldSpecs(key) == key \in Range(FieldOrder) \cup InheritedKeys

(***************************************************************************)
(* schema.js: validateFrontmatter and validateSkillSet. A call either      *)
(* returns a value or throws; Thrown stands for the TypeError that leaves  *)
(* the call.                                                               *)
(***************************************************************************)
Thrown == [threw |-> TRUE]

\* the characters of a field name, to compare it with a string value
FieldChars(field) ==
    CASE field = "name" -> <<"n","a","m","e">>
      [] field = "type" -> <<"t","y","p","e">>
      [] field = "category" -> <<"c","a","t","e","g","o","r","y">>
      [] field = "tags" -> <<"t","a","g","s">>
      [] field = "status" -> <<"s","t","a","t","u","s">>
      [] field = "version" -> <<"v","e","r","s","i","o","n">>
      [] field = "related" -> RELATED
      [] field = "scripts" -> SCRIPTS
      [] field = "moc" -> MOC
      [] field = "description" -> <<"d","e","s","c","r","i","p","t","i","o","n">>
      [] field = "title" -> <<"t","i","t","l","e">>
      [] OTHER -> <<"p","h","a","s","e">>

\* chars occurs in text as a substring
IsSubstring(chars, whole) ==
    \E i \in 1..(Len(whole) - Len(chars) + 1) : SubSeq(whole, i, i + Len(chars) - 1) = chars

\* const requiredOverride = options.requiredFields || null
requiredOverrideOf(opts) ==
    IF Truthy(Get(opts, "requiredFields")) THEN Get(opts, "requiredFields") ELSE JsNull

\* requiredOverride.includes(field) throws unless requiredOverride is an
\* array or a string
IncludesThrows(override) == override.t \notin {"null", "array", "string"}

\* requiredOverride ? requiredOverride.includes(field) : spec.required
isRequired(override, field) ==
    CASE override.t = "array" ->
            \E i \in DOMAIN override.items :
                override.items[i] = JsString(FieldChars(field))
      [] override.t = "string" -> IsSubstring(FieldChars(field), override.s)
      [] OTHER -> FieldRequired(field)

\* an object with one more property set
SetEntry(entries, key, value) ==
    IF \E i \in DOMAIN entries : entries[i][1] = key
    THEN [i \in DOMAIN entries |->
            IF entries[i][1] = key THEN <<key, value>> ELSE entries[i]]
    ELSE Append(entries, <<key, value>>)

\* one turn of the loop over FIELD_SPECS, on the errors, warnings and
\* normalized object gathered so far
validateField(acc, frontmatter, override, field) ==
    LET value == Get(frontmatter, field)
        withDefault == IF FieldHasDefault(field)
                       THEN SetEntry(acc.normalized, field, FieldDefault(field))
                       ELSE acc.normalized
    IN  IF acc.threw THEN acc
        ELSE IF IncludesThrows(override) THEN Thrown
        ELSE IF IsNullish(value) THEN
            [acc EXCEPT
                !.errors = IF isRequired(override, field)
                           THEN Append(@, [kind |-> "missing", field |-> field])
                           ELSE @,
                !.normalized = withDefault]
        ELSE IF ~FieldValidate(field, value) THEN
            IF FieldHasCoerce(field) /\ ~IsNullish(FieldCoerce(field, value))
            THEN IF StringifyThrows(value) THEN Thrown
                 ELSE [acc EXCEPT
                          !.normalized = SetEntry(@, field, FieldCoerce(field, value)),
                          !.warnings = Append(@, [kind |-> "coerced", field |-> field,
                                                  from |-> value,
                                                  to |-> FieldCoerce(field, value)])]
            ELSE IF StringifyThrows(value) THEN Thrown
                 ELSE [acc EXCEPT
                          !.warnings = Append(@, [kind |-> "invalid", field |-> field,
                                                  value |-> value,
                                                  expected |-> FieldType(field)]),
                          !.normalized = withDefault]
        ELSE [acc EXCEPT
                 !.normalized = SetEntry(@, field,
                                    IF FieldHasCoerce(field) THEN FieldCoerce(field, value)
                                    ELSE value)]

RECURSIVE validateFields(_, _, _, _)
validateFields(acc, frontmatter, override, i) ==
    IF i > Len(FieldOrder) THEN acc
    ELSE validateFields(validateField(acc, frontmatter, override, FieldOrder[i]),
                        frontmatter, override, i + 1)

\* the loop that passes the unknown fields through
RECURSIVE passThrough(_, _, _)
passThrough(acc, entries, strict) ==
    IF acc.threw \/ entries = <<>> THEN acc
    ELSE IF InFieldSpecs(Head(entries)[1]) THEN passThrough(acc, Tail(entries), strict)
    ELSE passThrough(
            [acc EXCEPT
                !.normalized = SetEntry(@, Head(entries)[1], Head(entries)[2]),
                !.warnings = IF strict
                             THEN Append(@, [kind |-> "unknown", key |-> Head(entries)[1]])
                             ELSE @],
            Tail(entries), strict)

\* validateFrontmatter(frontmatter, options); an options argument of
\* undefined is replaced by {}, and reading a property of null throws
validateFrontmatter(frontmatter, optionsArg) ==
    LET opts == IF optionsArg.t = "undefined" THEN JsObject(<<>>) ELSE optionsArg
    IN  IF opts.t = "null" THEN Thrown
        ELSE IF ~Truthy(frontmatter) \/ typeof(frontmatter) # "object" THEN
            [threw |-> FALSE, valid |-> FALSE,
             errors |-> <<[kind |-> "not-an-object"]>>,
             warnings |-> <<>>, normalized |-> <<>>]
        ELSE
            LET start == [threw |-> FALSE, errors |-> <<>>, warnings |-> <<>>,
                          normalized |-> <<>>]
                fields == validateFields(start, frontmatter, requiredOverrideOf(opts), 1)
                all == passThrough(fields, Entries(frontmatter), Truthy(Get(opts, "strict")))
            IN  IF all.threw THEN Thrown
                ELSE [threw |-> FALSE, valid |-> all.errors = <<>>,
                      errors |-> all.errors, warnings |-> all.warnings,
                      normalized |-> all.normalized]

\* isViewerCompatible(frontmatter)
isViewerCompatible(frontmatter) ==
    IF ~Truthy(frontmatter) \/ typeof(frontmatter) # "object" THEN FALSE
    ELSE isNonEmptyString(Get(frontmatter, "name"))

\* what for (const skill of skills) iterates over; it throws on a value
\* that is not iterable
IsIterable(v) == v.t \in {"array", "string"}

ItemsOf(v) ==
    IF v.t = "array" THEN v.items ELSE [i \in DOMAIN v.s |-> JsString(<<v.s[i]>>)]

UnknownPath == JsString(<<"u","n","k","n","o","w","n">>)

\* skill.path || skill.file || skill.name || 'unknown'
pathOf(skill) ==
    IF Truthy(Get(skill, "path")) THEN Get(skill, "path")
    ELSE IF Truthy(Get(skill, "file")) THEN Get(skill, "file")
    ELSE IF Truthy(Get(skill, "name")) THEN Get(skill, "name")
    ELSE UnknownPath

\* one turn of the loop of validateSkillSet; skill.frontmatter throws on
\* null and on undefined
validateEntry(acc, skill, optionsArg) ==
    IF acc.threw THEN acc
    ELSE IF IsNullish(skill) THEN Thrown
    ELSE
        LET fm == IF Truthy(Get(skill, "frontmatter")) THEN Get(skill, "frontmatter")
                  ELSE skill
            result == validateFrontmatter(fm, optionsArg)
        IN  IF result.threw THEN Thrown
            ELSE [threw |-> FALSE,
                  results |-> Append(acc.results,
                                 [path |-> pathOf(skill), valid |-> result.valid,
                                  errors |-> result.errors, warnings |-> result.warnings,
                                  normalized |-> result.normalized]),
                  validCount |-> acc.validCount + (IF result.valid THEN 1 ELSE 0),
                  invalidCount |-> acc.invalidCount + (IF result.valid THEN 0 ELSE 1),
                  warningCount |-> acc.warningCount
                                   + (IF result.warnings # <<>> THEN 1 ELSE 0)]

RECURSIVE validateEntries(_, _, _, _)
validateEntries(acc, items, optionsArg, i) ==
    IF i > Len(items) THEN acc
    ELSE validateEntries(validateEntry(acc, items[i], optionsArg), items, optionsArg, i + 1)

\* validateSkillSet(skills, options)
validateSkillSet(skills, optionsArg) ==
    IF ~IsIterable(skills) THEN Thrown
    ELSE
        LET start == [threw |-> FALSE, results |-> <<>>, validCount |-> 0,
                      invalidCount |-> 0, warningCount |-> 0]
            all == validateEntries(start, ItemsOf(skills), optionsArg, 1)
        IN  IF all.threw THEN Thrown
            ELSE [threw |-> FALSE,
                  results |-> all.results,
                  summary |-> [total |-> Len(ItemsOf(skills)),
                               valid |-> all.validCount,
                               invalid |-> all.invalidCount,
                               warnings |-> all.warningCount]]

(***************************************************************************)
(* The validator on its own: one call of validateFrontmatter or one call   *)
(* of validateSkillSet                                                     *)
(***************************************************************************)
MaxSkills == 2

\* a property that an object of the pools does not have
Absent == [t |-> "absent"]

\* the object with the given properties, the absent ones left out
ObjectOf(pairs) == JsObject(SelectSeq(pairs, LAMBDA pair : pair[2] # Absent))

NameValues ==
    { Absent, JsNull, JsString(<<>>), JsString(<<" ">>), JsString(sA), JsNumber(42),
      JsBigInt(1), JsArray(<<JsString(sA)>>) }

TypeValues == {Absent, JsString(<<"H","o","o","k">>), JsString(<<"x">>)}

MocValues == {Absent, JsString(TrueText), JsString(<<"y">>)}

TagValues == {Absent, JsString(<<"a",","," ","b">>)}

ExtraEntries == {<<"x", Absent>>, <<"x", JsNumber(1)>>, <<"constructor", JsNumber(1)>>}

FrontmatterPool ==
    { JsUndefined, JsNull, JsString(<<"x">>), JsNumber(0), JsArray(<<>>),
      JsArray(<<JsString(sA)>>) }
    \cup
    { ObjectOf(<<extra, <<"moc", moc>>, <<"type", type>>, <<"tags", tags>>, <<"name", name>>>>) :
        extra \in ExtraEntries, moc \in MocValues, type \in TypeValues,
        tags \in TagValues, name \in NameValues }

OptionsPool ==
    { JsUndefined, JsNull,
      JsObject(<< <<"strict", JsBoolean(TRUE)>> >>),
      JsObject(<< <<"requiredFields", JsArray(<<JsString(<<"t","y","p","e">>)>>)>> >>) }

PathA == JsString(<<"/","a",".","m","d">>)

SkillEntryPool ==
    { JsNull, JsNumber(7),
      JsObject(<< <<"path", PathA>>, <<"frontmatter", ObjectOf(<< <<"name", JsString(sA)>> >>)>> >>),
      JsObject(<< <<"path", PathA>>, <<"frontmatter", JsObject(<<>>)>> >>),
      JsObject(<< <<"file", PathA>>, <<"frontmatter", JsNull>> >>),
      JsObject(<< <<"name", JsString(sB)>>, <<"type", JsString(<<"H","o","o","k">>)>> >>),
      JsObject(<< <<"frontmatter", ObjectOf(<< <<"name", JsString(<<>>)>> >>)>> >>) }

SkillSetPool ==
    {JsUndefined, JsNull, JsString(<<"a","b">>), JsObject(<<>>)}
    \cup {JsArray(items) : items \in SeqsUpTo(SkillEntryPool, MaxSkills)}

InitSchema ==
    /\ pc = "ready"
    /\ \/ fmArg \in FrontmatterPool /\ setArg = NotCalled
       \/ fmArg = NotCalled /\ setArg \in SkillSetPool
    /\ optArg \in OptionsPool
    /\ outcome = NotCalled
    /\ GraphIdle
    /\ ResolverIdle
    /\ NormalizerIdle
    /\ HealthIdle
    /\ AdapterIdle

\* outcome = validateFrontmatter(fmArg, optArg)
ValidateFrontmatter ==
    /\ pc = "ready"
    /\ fmArg # NotCalled
    /\ outcome' = validateFrontmatter(fmArg, optArg)
    /\ pc' = "validated"
    /\ UNCHANGED <<fmArg, setArg, optArg, graphVars, resolverVars, normalizerVars, healthVars, adapterVars>>

\* outcome = validateSkillSet(setArg, optArg)
ValidateSkillSet ==
    /\ pc = "ready"
    /\ setArg # NotCalled
    /\ outcome' = validateSkillSet(setArg, optArg)
    /\ pc' = "summarised"
    /\ UNCHANGED <<fmArg, setArg, optArg, graphVars, resolverVars, normalizerVars, healthVars, adapterVars>>

NextSchema == ValidateFrontmatter \/ ValidateSkillSet

SpecSchema == InitSchema /\ [][NextSchema]_vars

Validated == pc = "validated"

Summarised == pc = "summarised"

\* the input carries name as a string that is not empty or white space
CarriesName(frontmatter) ==
    typeof(frontmatter) = "object" /\ frontmatter.t # "null"
    /\ isNonEmptyString(Get(frontmatter, "name"))

\* C15: with default options validateFrontmatter returns valid = TRUE only
\* for an input that carries name as a non-empty string; for a name that is
\* absent, null, not a string or empty it returns valid = FALSE with a
\* non-empty errors list and still a normalized record; and every input
\* reported valid is accepted by isViewerCompatible
C15_ValidOnlyWithName ==
    (Validated /\ optArg = JsUndefined) =>
        /\ ~outcome.threw
        /\ outcome.valid => CarriesName(fmArg)
        /\ ~CarriesName(fmArg) =>
              /\ ~outcome.valid
              /\ outcome.errors # <<>>
              /\ "normalized" \in DOMAIN outcome
        /\ outcome.valid => isViewerCompatible(fmArg)

\* C16: validateFrontmatter and validateSkillSet return a value for every
\* input, and the summary of validateSkillSet has total = valid + invalid =
\* the number of results
C16_NeverRaises ==
    (Validated \/ Summarised) =>
        /\ ~outcome.threw
        /\ Summarised =>
              /\ outcome.summary.total = outcome.summary.valid + outcome.summary.invalid
              /\ outcome.summary.total = Len(outcome.results)

(***************************************************************************)
(* The HealthInputAdapter over a directory tree. A directory is the list   *)
(* of its entries in the order in which the adapter lists them; an entry   *)
(* is a file with its text (Null when the read fails) or a directory.      *)
(***************************************************************************)
FileEntry(name, content) == [name |-> name, kind |-> "file", content |-> content]

DirEntry(name, children) == [name |-> name, kind |-> "directory", children |-> children]

\* (path || '').split('/').filter(Boolean)
RECURSIVE SplitOnSlash(_, _)
SplitOnSlash(chars, piece) ==
    IF chars = <<>> THEN <<piece>>
    ELSE IF Head(chars) = "/" THEN <<piece>> \o SplitOnSlash(Tail(chars), <<>>)
    ELSE SplitOnSlash(Tail(chars), Append(piece, Head(chars)))

segments(path) == FilterNonEmpty(SplitOnSlash(path, <<>>))

\* no entry of that name
MissingEntry == [kind |-> "missing"]

\* the entry of that name in a directory
entryNamed(children, name) ==
    IF \E i \in DOMAIN children : children[i].name = name
    THEN children[CHOOSE i \in DOMAIN children : children[i].name = name]
    ELSE MissingEntry

\* getDirectoryHandle rejected
NoDirectory == [found |-> FALSE]

\* getDir(segs): the directory reached from the root, unless a segment is
\* not a directory
RECURSIVE getDir(_, _)
getDir(children, segs) ==
    IF segs = <<>> THEN [found |-> TRUE, children |-> children]
    ELSE LET entry == entryNamed(children, Head(segs))
         IN  IF entry.kind # "directory" THEN NoDirectory
             ELSE getDir(entry.children, Tail(segs))

\* adapter.listDir(relativePath): the names of the entries, [] on failure
listDir(tree, relativePath) ==
    LET dir == getDir(tree, segments(relativePath))
    IN  IF ~dir.found THEN <<>>
        ELSE [i \in DOMAIN dir.children |-> dir.children[i].name]

\* adapter.readFile(relativePath): the text, null on failure
readFile(tree, relativePath) ==
    LET parts == segments(relativePath)
    IN  IF parts = <<>> THEN Null
        ELSE LET dir == getDir(tree, SubSeq(parts, 1, Len(parts) - 1))
                 entry == IF dir.found THEN entryNamed(dir.children, parts[Len(parts)])
                          ELSE MissingEntry
             IN  IF entry.kind # "file" THEN Null ELSE entry.content

(***************************************************************************)
(* health.js: collectMarkdownFiles                                         *)
(***************************************************************************)
DotMd == <<".", "m", "d">>

\* dir ? `${dir}/${name}` : name
joinPath(dir, name) == IF dir = <<>> THEN name ELSE dir \o <<"/">> \o name

\* walk(dir) from the i-th name of its listing on; files is the list
\* gathered so far
RECURSIVE walkEntries(_, _, _, _, _)
walkEntries(tree, dir, names, i, files) ==
    IF i > Len(names) THEN files
    ELSE
        LET name == names[i]
            path == joinPath(dir, name)
        IN  IF StartsWith(name, <<".">>) THEN walkEntries(tree, dir, names, i + 1, files)
            ELSE IF EndsWith(name, DotMd) THEN
                LET content == readFile(tree, path)
                IN  walkEntries(tree, dir, names, i + 1,
                        IF content # Null
                        THEN Append(files, [path |-> path, content |-> content])
                        ELSE files)
            ELSE
                LET sub == listDir(tree, path)
                IN  walkEntries(tree, dir, names, i + 1,
                        IF Len(sub) > 0
                        THEN walkEntries(tree, path, listDir(tree, path), 1, files)
                        ELSE files)

collectMarkdownFiles(tree) == walkEntries(tree, <<>>, listDir(tree, <<>>), 1, <<>>)

\* one call of an adapter operation
Call(op, path) == [op |-> op, path |-> path]

\* the adapter calls of walk(dir) from the i-th name of its listing on, added
\* to log: a readFile for a visible .md name; for any other visible name a
\* listDir, and when that listing is not empty the walk of it, which lists
\* it again
RECURSIVE walkCalls(_, _, _, _, _)
walkCalls(tree, dir, names, i, log) ==
    IF i > Len(names) THEN log
    ELSE
        LET name == names[i]
            path == joinPath(dir, name)
        IN  IF StartsWith(name, <<".">>) THEN walkCalls(tree, dir, names, i + 1, log)
            ELSE IF EndsWith(name, DotMd) THEN
                walkCalls(tree, dir, names, i + 1, Append(log, Call("readFile", path)))
            ELSE
                LET sub == listDir(tree, path)
                    probed == Append(log, Call("listDir", path))
                IN  walkCalls(tree, dir, names, i + 1,
                        IF Len(sub) > 0
                        THEN walkCalls(tree, path, listDir(tree, path), 1,
                                       Append(probed, Call("listDir", path)))
                        ELSE probed)

\* the adapter calls of collectMarkdownFiles, in order
collectCalls(tree) ==
    walkCalls(tree, <<>>, listDir(tree, <<>>), 1, <<Call("listDir", <<>>)>>)

(***************************************************************************)
(* health.js: the regular expressions, matched character by character      *)
(***************************************************************************)
\* the characters that . does not match and that ^ and $ split lines at
IsLineTerminator(c) == c \in {"\n", "\r"}

\* chars occurs in whole at position i
OccursAt(chars, whole, i) ==
    i >= 1 /\ i + Len(chars) - 1 <= Len(whole)
    /\ SubSeq(whole, i, i + Len(chars) - 1) = chars

\* ^ under the m flag: position i starts a line
IsLineStart(whole, i) == i = 1 \/ (i > 1 /\ IsLineTerminator(whole[i - 1]))

\* the first position from i on whose character is not white space
RECURSIVE SkipSpaces(_, _)
SkipSpaces(whole, i) ==
    IF i <= Len(whole) /\ IsSpace(whole[i]) THEN SkipSpaces(whole, i + 1) ELSE i

\* the last position of the line that position i is on
RECURSIVE EndOfLine(_, _)
EndOfLine(whole, i) ==
    IF i < Len(whole) /\ ~IsLineTerminator(whole[i + 1]) THEN EndOfLine(whole, i + 1) ELSE i

Dashes == <<"-", "-", "-">>

\* \r?\n--- at position i
ClosesFrontmatter(content, i) ==
    \/ OccursAt(<<"\n">> \o Dashes, content, i)
    \/ OccursAt(<<"\r", "\n">> \o Dashes, content, i)

\* FRONTMATTER_RE = /^---\r?\n([\s\S]*?)\r?\n---/ : content.match(...),
\* with the text of group 1
matchFrontmatter(content) ==
    LET open == IF OccursAt(Dashes \o <<"\n">>, content, 1) THEN 5
                ELSE IF OccursAt(Dashes \o <<"\r", "\n">>, content, 1) THEN 6
                ELSE 0
        ends == {e \in open..(Len(content) + 1) : ClosesFrontmatter(content, e)}
    IN  IF open = 0 \/ ends = {} THEN [matched |-> FALSE, body |-> <<>>]
        ELSE LET e == CHOOSE x \in ends : \A y \in ends : x <= y
             IN  [matched |-> TRUE, body |-> SubSeq(content, open, e - 1)]

NameWord == <<"n", "a", "m", "e">>

\* /^name\s*:/ matches at position i
NameKeyAt(body, i) ==
    /\ IsLineStart(body, i)
    /\ OccursAt(NameWord, body, i)
    /\ OccursAt(<<":">>, body, SkipSpaces(body, i + 4))

\* hasSkillFrontmatter(content)
hasSkillFrontmatter(content) ==
    LET m == matchFrontmatter(content)
    IN  m.matched /\ \E i \in DOMAIN m.body : NameKeyAt(m.body, i)

\* where group 1 of /^name\s*:\s*(.+)$/m starts when the key is at i: the
\* farthest position after the colon, reached over white space only, whose
\* character . matches; 0 when there is none
NameValueStart(body, i) ==
    LET colon == SkipSpaces(body, i + 4)
        stop == SkipSpaces(body, colon + 1)
        starts == {p \in (colon + 1)..stop : p <= Len(body) /\ ~IsLineTerminator(body[p])}
    IN  IF starts = {} THEN 0 ELSE CHOOSE p \in starts : \A q \in starts : q <= p

\* .replace(/^["']|["']$/g, '')
StripQuotes(chars) ==
    LET a == IF chars # <<>> /\ Head(chars) \in {"\"", "'"} THEN Tail(chars) ELSE chars
    IN  IF a # <<>> /\ a[Len(a)] \in {"\"", "'"} THEN SubSeq(a, 1, Len(a) - 1) ELSE a

\* the name that checkWikiLinks reads from the header of a file, '' when
\* there is none
skillNameOf(content) ==
    LET m == matchFrontmatter(content)
        keys == {i \in DOMAIN m.body : NameKeyAt(m.body, i) /\ NameValueStart(m.body, i) > 0}
    IN  IF ~m.matched \/ keys = {} THEN <<>>
        ELSE LET i == CHOOSE x \in keys : \A y \in keys : x <= y
                 p == NameValueStart(m.body, i)
             IN  StripQuotes(Trim(SubSeq(m.body, p, EndOfLine(m.body, p))))

\* the first position from i on whose character is ']'
RECURSIVE SkipToBracket(_, _)
SkipToBracket(whole, i) ==
    IF i <= Len(whole) /\ whole[i] # "]" THEN SkipToBracket(whole, i + 1) ELSE i

\* WIKILINK_RE = /\[\[([^\]]+)\]\]/g : the exec loop from lastIndex i on,
\* with match[1].trim() of every match
RECURSIVE wikiTargetsFrom(_, _)
wikiTargetsFrom(content, i) ==
    IF i > Len(content) THEN <<>>
    ELSE IF ~OccursAt(<<"[", "[">>, content, i) THEN wikiTargetsFrom(content, i + 1)
    ELSE LET close == SkipToBracket(content, i + 2)
         IN  IF close > i + 2 /\ OccursAt(<<"]", "]">>, content, close)
             THEN <<Trim(SubSeq(content, i + 2, close - 1))>>
                  \o wikiTargetsFrom(content, close + 2)
             ELSE wikiTargetsFrom(content, i + 1)

wikiTargets(content) == wikiTargetsFrom(content, 1)

DofWords ==
    { <<"d","e","s","c","r","i","p","t","i","o","n">>, <<"o","u","t","p","u","t">>,
      <<"f","o","r","m","a","t">> }

\* \w of the regular expression
IsWordChar(c) == c \in AlnumSet \cup UpperSet \cup {"_"}

\* the number of '#' from position i on
RECURSIVE CountHashes(_, _)
CountHashes(whole, i) ==
    IF i <= Len(whole) /\ whole[i] = "#" THEN 1 + CountHashes(whole, i + 1) ELSE 0

\* DOF_HEADING_RE = /^#{1,3}\s+(Description|Output|Format)\b/im matches at i
DofHeadingAt(content, i) ==
    LET hashes == CountHashes(content, i)
        word == SkipSpaces(content, i + hashes)
    IN  /\ IsLineStart(content, i)
        /\ hashes \in 1..3
        /\ word > i + hashes
        /\ \E w \in DofWords :
              /\ OccursAt(w, ToLower(content), word)
              /\ (word + Len(w) <= Len(content) => ~IsWordChar(content[word + Len(w)]))

\* DOF_HEADING_RE.test(content)
hasDofHeading(content) == \E i \in DOMAIN content : DofHeadingAt(content, i)

(***************************************************************************)
(* health.js: results, report and the six rules                            *)
(***************************************************************************)
HEALTH_SCHEMA_VERSION == "1.0.0"

HEALTH_RULES == <<"git", "autogit", "skills-count", "wiki-links", "dof", "helpers">>

CTA_URL == "https://github.com/ForgeVista/fv-skills-command"

\* worstStatus with the two tests exchanged
worstStatus_WarnFirst(statuses) ==
    IF "warn" \in Range(statuses) THEN "warn"
    ELSE IF "fail" \in Range(statuses) THEN "fail"
    ELSE "pass"

\* worstStatus(statuses)
worstStatus(statuses) ==
    IF "fail" \in Range(statuses) THEN "fail"
    ELSE IF "warn" \in Range(statuses) THEN "warn"
    ELSE "pass"

\* the detail argument left out
NoDetail == [undefined |-> TRUE]

\* createCheckResult(rule, status, message, detail)
createCheckResult(rule, status, message, detail) ==
    IF detail # NoDetail
    THEN [rule |-> rule, status |-> status, message |-> message, detail |-> detail]
    ELSE [rule |-> rule, status |-> status, message |-> message]

\* `${n}` followed by the fixed pieces of a template literal
Template(n, pieces) == NatToString(n) \o pieces

\* new Date(now).toISOString(), for now below one second
toISOString(now) ==
    <<"1970-01-01T00:00:00.", Digits[(now \div 100) + 1], Digits[((now \div 10) % 10) + 1],
      Digits[(now % 10) + 1], "Z">>

\* Math.max(0, x)
MaxZero(x) == IF x > 0 THEN x ELSE 0

\* variant: the duration is the plain difference of the two clock readings
buildHealthReport_RawDuration(results, startTime, now) ==
    [ version |-> HEALTH_SCHEMA_VERSION,
      overall |-> worstStatus([i \in DOMAIN results |-> results[i].status]),
      results |-> results,
      checkedAt |-> toISOString(now),
      duration |-> now - startTime ]

\* buildHealthReport(results, { startTime }) when Date.now() answers now
buildHealthReport(results, startTime, now) ==
    [ version |-> HEALTH_SCHEMA_VERSION,
      overall |-> worstStatus([i \in DOMAIN results |-> results[i].status]),
      results |-> results,
      checkedAt |-> toISOString(now),
      duration |-> MaxZero(now - startTime) ]

\* checkGit(adapter)
checkGit(adapterArg) ==
    IF adapterArg.isGitRepo
    THEN createCheckResult("git", "pass",
            <<"Version history is available for this folder.">>, NoDetail)
    ELSE createCheckResult("git", "fail",
            <<"This folder is not set up for version tracking. Initialize Git to see your change history and diffs.">>,
            [ctaUrl |-> CTA_URL, ctaText |-> "Get started with Git"])

\* checkAutogit reporting a missing tracking marker as a failure
checkAutogit_FailsWhenAbsent(adapterArg) ==
    IF adapterArg.hasAutogitTracking
    THEN createCheckResult("autogit", "pass",
            <<"Automatic change tracking is active.">>, NoDetail)
    ELSE createCheckResult("autogit", "fail",
            <<"Automatic change tracking is not set up. Enable autogit in the desktop app to record every edit without manual commits.">>,
            [ctaUrl |-> CTA_URL, ctaText |-> "Enable autogit"])

\* checkAutogit(adapter)
checkAutogit(adapterArg) ==
    IF adapterArg.hasAutogitTracking
    THEN createCheckResult("autogit", "pass",
            <<"Automatic change tracking is active.">>, NoDetail)
    ELSE createCheckResult("autogit", "warn",
            <<"Automatic change tracking is not set up. Enable autogit in the desktop app to record every edit without manual commits.">>,
            [ctaUrl |-> CTA_URL, ctaText |-> "Enable autogit"])

\* checkSkillsCount(adapter)
checkSkillsCount(adapterArg) ==
    LET count == adapterArg.skillFileCount
    IN  IF count > 0
        THEN createCheckResult("skills-count", "pass",
                Template(count, <<" skill", IF count = 1 THEN "" ELSE "s",
                                  " indexed and ready to view.">>),
                [count |-> count])
        ELSE createCheckResult("skills-count", "fail",
                <<"No skill files found. Add Markdown files (.md) with a skill frontmatter block to get started.">>,
                [count |-> 0, ctaUrl |-> CTA_URL, ctaText |-> "Skill file format"])

\* mdFiles.filter((f) => hasSkillFrontmatter(f.content))
skillFilesOf(files) == SelectSeq(files, LAMBDA f : hasSkillFrontmatter(f.content))

\* mdFiles.filter((f) => !hasSkillFrontmatter(f.content))
helperFilesOf(files) == SelectSeq(files, LAMBDA f : ~hasSkillFrontmatter(f.content))

\* the Set skillNames of checkWikiLinks
skillNamesOf(files) ==
    {skillNameOf(f.content) : f \in Range(skillFilesOf(files))} \ {<<>>}

\* the entries pushed to broken for one file
brokenIn(file, skillNames) ==
    LET targets == wikiTargets(file.content)
        missing == SelectSeq(targets, LAMBDA t : t \notin skillNames)
    IN  [i \in DOMAIN missing |-> [file |-> file.path, target |-> missing[i]]]

\* the list broken of checkWikiLinks, file after file from the i-th on
RECURSIVE brokenFrom(_, _, _)
brokenFrom(files, i, skillNames) ==
    IF i > Len(files) THEN <<>>
    ELSE brokenIn(files[i], skillNames) \o brokenFrom(files, i + 1, skillNames)

brokenLinks(files) == brokenFrom(files, 1, skillNamesOf(files))

\* checkWikiLinks(adapter, mdFiles); the typographic apostrophe of the
\* message is written '
checkWikiLinks(files) ==
    LET broken == brokenLinks(files)
        one == Len(broken) = 1
    IN  IF Len(broken) = 0
        THEN createCheckResult("wiki-links", "pass",
                <<"All skill cross-references point to valid targets.">>, NoDetail)
        ELSE createCheckResult("wiki-links", "warn",
                Template(Len(broken),
                    <<" cross-reference", IF one THEN "" ELSE "s", " point",
                      IF one THEN "s" ELSE "",
                      " to skills that don't exist yet. Check for typos in the linked names.">>),
                [broken |-> broken, ctaUrl |-> CTA_URL, ctaText |-> "Fix broken links"])

\* checkDof(mdFiles)
checkDof(files) ==
    LET skillFiles == skillFilesOf(files)
        lacking == SelectSeq(skillFiles, LAMBDA f : ~hasDofHeading(f.content))
        missing == [i \in DOMAIN lacking |-> lacking[i].path]
    IN  IF Len(skillFiles) = 0
        THEN createCheckResult("dof", "pass",
                <<"No skill files to check for structure.">>, NoDetail)
        ELSE IF Len(missing) = 0
        THEN createCheckResult("dof", "pass",
                <<"Every skill has a Description, Output, or Format section.">>, NoDetail)
        ELSE createCheckResult("dof", "warn",
                Template(Len(missing),
                    <<" skill", IF Len(missing) = 1 THEN " is" ELSE "s are",
                      " missing a Description, Output, or Format heading. Adding one makes the skill easier to understand at a glance.">>),
                [missing |-> missing, ctaUrl |-> CTA_URL, ctaText |-> "Add structure sections"])

\* checkHelpers(mdFiles); the dash of the first message is written -
checkHelpers(files) ==
    LET helpers == helperFilesOf(files)
        skills == skillFilesOf(files)
    IN  IF Len(skills) = 0
        THEN createCheckResult("helpers", "pass",
                <<"No skills found yet - supporting files will be checked once you add skills.">>,
                NoDetail)
        ELSE IF Len(helpers) = 0
        THEN createCheckResult("helpers", "pass",
                Template(Len(skills),
                    <<" skill", IF Len(skills) = 1 THEN "" ELSE "s",
                      " found. No additional reference files detected.">>),
                [helperCount |-> 0, skillCount |-> Len(skills)])
        ELSE createCheckResult("helpers", "pass",
                Template(Len(helpers),
                    <<" supporting reference file", IF Len(helpers) = 1 THEN "" ELSE "s",
                      " alongside ">>)
                \o Template(Len(skills), <<" skill", IF Len(skills) = 1 THEN "" ELSE "s", ".">>),
                [helperCount |-> Len(helpers), skillCount |-> Len(skills)])

\* the three rules that runHealthChecks hands to Promise.all
AdapterRules == {"git", "autogit", "skills-count"}

\* the result of one of them
adapterRuleResult(rule, adapterArg) ==
    CASE rule = "git" -> checkGit(adapterArg)
      [] rule = "autogit" -> checkAutogit(adapterArg)
      [] rule = "skills-count" -> checkSkillsCount(adapterArg)

(***************************************************************************)
(* The health run: runHealthChecks(adapter) on an adapter whose three      *)
(* answers are free and whose files are a small directory tree.  The three *)
(* adapter rules settle in any order; the scan and the report follow.      *)
(***************************************************************************)
MaxCount == 2

MaxClock == 1

MaxEntries == 2

\* ---\nname: a\n---\n[[a|x]]
SkillWithAliasLink ==
    <<"-", "-", "-", "\n", "n", "a", "m", "e", ":", " ", "a", "\n", "-",
      "-", "-", "\n", "[", "[", "a", "|", "x", "]", "]">>

\* ---\nname: b\n---\n# Output\n[[a]]
SkillWithHeading ==
    <<"-", "-", "-", "\n", "n", "a", "m", "e", ":", " ", "b", "\n", "-",
      "-", "-", "\n", "#", " ", "O", "u", "t", "p", "u", "t", "\n", "[",
      "[", "a", "]", "]">>

\* ---\r\nname : 'q'\r\n---\r\n##  format
SkillQuoted ==
    <<"-", "-", "-", "\r", "\n", "n", "a", "m", "e", " ", ":", " ", "'",
      "q", "'", "\r", "\n", "-", "-", "-", "\r", "\n", "#", "#", " ", " ",
      "f", "o", "r", "m", "a", "t">>

\* [[c]] [[ b ]] [[B]]
HelperWithLinks ==
    <<"[", "[", "c", "]", "]", " ", "[", "[", " ", "b", " ", "]", "]", " ",
      "[", "[", "B", "]", "]">>

\* x
PlainText ==
    <<"x">>

AMd == <<"a", ".", "m", "d">>

BMd == <<"b", ".", "m", "d">>

CMd == <<"c", ".", "m", "d">>

UpperMd == <<"B", ".", "M", "D">>

HiddenMd == <<".", "h", ".", "m", "d">>

UMd == <<"u", ".", "m", "d">>

NTxt == <<"n", ".", "t", "x", "t">>

DName == <<"d">>

EMd == <<"e", ".", "m", "d">>

HiddenDir == <<".", "g">>

FMd == <<"f", ".", "m", "d">>

MixedMd == <<"E", ".", "M", "d">>

DirMd == <<"x", ".", "m", "d">>

EName == <<"e">>

\* the entries a root directory is made of, in the order it lists them;
\* u.md is a file whose read fails
TreeEntryPool ==
    << FileEntry(AMd, SkillWithAliasLink),
       FileEntry(BMd, SkillWithHeading),
       FileEntry(CMd, HelperWithLinks),
       FileEntry(UpperMd, SkillQuoted),
       FileEntry(HiddenMd, PlainText),
       FileEntry(UMd, Null),
       FileEntry(NTxt, PlainText),
       DirEntry(DName, << FileEntry(EMd, SkillQuoted),
                          DirEntry(HiddenDir, <<FileEntry(FMd, PlainText)>>),
                          FileEntry(MixedMd, PlainText) >>),
       DirEntry(DirMd, <<FileEntry(FMd, PlainText)>>),
       DirEntry(EName, <<>>) >>

\* the entries of the pool at the chosen positions, in pool order
RECURSIVE EntriesAt(_, _)
EntriesAt(chosen, i) ==
    IF i > Len(TreeEntryPool) THEN <<>>
    ELSE (IF i \in chosen THEN <<TreeEntryPool[i]>> ELSE <<>>) \o EntriesAt(chosen, i + 1)

TreePool ==
    {EntriesAt(chosen, 1) : chosen \in {c \in SUBSET DOMAIN TreeEntryPool : Cardinality(c) <= MaxEntries}}

AdapterPool ==
    [ isGitRepo : BOOLEAN, hasAutogitTracking : BOOLEAN,
      skillFileCount : 0..MaxCount, tree : TreePool ]

\* no adapter rule has settled yet
NoResults == [r \in {} |-> NotCalled]

InitHealth ==
    /\ pc = "ready"
    /\ adapter \in AdapterPool
    /\ run = NotCalled
    /\ calls = <<>>
    /\ abortRequested = FALSE
    /\ mdFiles = <<>>
    /\ report = NotCalled
    /\ AdapterIdle
    /\ GraphIdle
    /\ ResolverIdle
    /\ NormalizerIdle
    /\ SchemaIdle

\* the adapter operation each adapter rule awaits
RuleCall(rule) ==
    CASE rule = "git" -> Call("isGitRepo", <<>>)
      [] rule = "autogit" -> Call("hasAutogitTracking", <<>>)
      [] rule = "skills-count" -> Call("skillFileCount", <<>>)

\* runHealthChecks up to Promise.all: the clock is read and checkGit,
\* checkAutogit and checkSkillsCount are called in turn, each running up to
\* its await of the adapter
StartRun ==
    /\ pc = "ready"
    /\ \E t \in 0..MaxClock : run' = [startTime |-> t, results |-> NoResults, settled |-> <<>>]
    /\ calls' = <<RuleCall("git"), RuleCall("autogit"), RuleCall("skills-count")>>
    /\ pc' = "checking"
    /\ UNCHANGED <<adapter, abortRequested, mdFiles, report,
                   graphVars, resolverVars, normalizerVars, schemaVars, adapterVars>>

\* one of the three adapter rules settles, in whatever order the adapter
\* answers
Settle ==
    /\ pc = "checking"
    /\ \E rule \in AdapterRules \ DOMAIN run.results :
          run' = [run EXCEPT !.results = MapSet(run.results, rule, adapterRuleResult(rule, adapter)),
                             !.settled = Append(run.settled, rule)]
    /\ UNCHANGED <<pc, adapter, calls, abortRequested, mdFiles, report,
                   graphVars, resolverVars, normalizerVars, schemaVars, adapterVars>>

\* variant: the scan does not wait for the adapter rules
Scan_WithoutWaiting ==
    /\ pc = "checking"
    /\ mdFiles' = collectMarkdownFiles(adapter.tree)
    /\ calls' = calls \o collectCalls(adapter.tree)
    /\ pc' = "scanned"
    /\ UNCHANGED <<adapter, run, abortRequested, report,
                   graphVars, resolverVars, normalizerVars, schemaVars, adapterVars>>

\* Promise.all has resolved: collectMarkdownFiles(adapter)
Scan ==
    /\ pc = "checking"
    /\ DOMAIN run.results = AdapterRules
    /\ mdFiles' = collectMarkdownFiles(adapter.tree)
    /\ calls' = calls \o collectCalls(adapter.tree)
    /\ pc' = "scanned"
    /\ UNCHANGED <<adapter, run, abortRequested, report,
                   graphVars, resolverVars, normalizerVars, schemaVars, adapterVars>>

\* the three content rules on the scanned list, then buildHealthReport
Report ==
    /\ pc = "scanned"
    /\ \E now \in 0..MaxClock :
          report' = buildHealthReport(
                        << run.results["git"], run.results["autogit"],
                           run.results["skills-count"], checkWikiLinks(mdFiles),
                           checkDof(mdFiles), checkHelpers(mdFiles) >>,
                        run.startTime, now)
    /\ pc' = "reported"
    /\ UNCHANGED <<adapter, run, calls, abortRequested, mdFiles,
                   graphVars, resolverVars, normalizerVars, schemaVars, adapterVars>>

\* the host asks for the run to be abandoned while it is under way;
\* runHealthChecks(adapter) and the adapter operations take no signal, so
\* nothing of the run reads the request
RequestAbort ==
    /\ pc \in {"checking", "scanned"}
    /\ ~abortRequested
    /\ abortRequested' = TRUE
    /\ UNCHANGED <<pc, adapter, run, calls, mdFiles, report,
                   graphVars, resolverVars, normalizerVars, schemaVars, adapterVars>>

NextHealth == StartRun \/ Settle \/ Scan \/ Report

SpecHealth == InitHealth /\ [][NextHealth]_vars

\* runs over a folder that is not a repository and holds one or two entries,
\* with a host that may ask for the run to be abandoned
InitAbort ==
    /\ InitHealth
    /\ ~adapter.isGitRepo
    /\ ~adapter.hasAutogitTracking
    /\ adapter.skillFileCount = Min(Len(adapter.tree), MaxCount)
    /\ adapter.tree # <<>>

NextAbort == NextHealth \/ RequestAbort

SpecAbort == InitAbort /\ [][NextAbort]_vars

Reported == pc = "reported"

\* the statuses of the results of the report, in order
StatusesOf(r) == [i \in DOMAIN r.results |-> r.results[i].status]

\* pass < warn < fail
Severity(status) == CASE status = "pass" -> 0 [] status = "warn" -> 1 [] status = "fail" -> 2

\* C17: every report of runHealthChecks holds six results, one per rule, in
\* the order git, autogit, skills-count, wiki-links, dof, helpers, whatever
\* order the adapter rules settled in; its overall status is the most severe
\* of the six statuses; worstStatus of the empty list is pass.
C17_SixResultsWorstOverall ==
    /\ worstStatus(<<>>) = "pass"
    /\ Reported =>
          /\ Len(report.results) = 6
          /\ \A i \in 1..6 : report.results[i].rule = HEALTH_RULES[i]
          /\ \E i \in 1..6 : Severity(report.results[i].status) = Severity(report.overall)
          /\ \A i \in 1..6 : Severity(report.results[i].status) <= Severity(report.overall)

\* a report whose six statuses hold a fail, a warn and a pass
C17_Witness ==
    /\ Reported
    /\ {"fail", "warn", "pass"} \subseteq Range(StatusesOf(report))
    /\ report.overall = "fail"

\* C18: the overall status is fail exactly when the adapter reports no
\* repository marker or a count of zero; git fails exactly when isGitRepo is
\* false, skills-count fails exactly when the count is not positive, autogit
\* is warn without the tracking marker, wiki-links, dof and helpers never
\* fail, helpers always passes, and dof passes when no scanned file has a
\* header with a name.
C18_FailOnlyFromAdapter ==
    Reported =>
        LET status == StatusesOf(report)
        IN  /\ report.overall = "fail" <=> (~adapter.isGitRepo \/ adapter.skillFileCount = 0)
            /\ status[1] = (IF adapter.isGitRepo THEN "pass" ELSE "fail")
            /\ status[2] = (IF adapter.hasAutogitTracking THEN "pass" ELSE "warn")
            /\ status[3] = (IF adapter.skillFileCount > 0 THEN "pass" ELSE "fail")
            /\ status[4] \in {"pass", "warn"}
            /\ status[5] \in {"pass", "warn"}
            /\ status[6] = "pass"
            /\ (\A i \in DOMAIN mdFiles : ~hasSkillFrontmatter(mdFiles[i].content))
                  => status[5] = "pass"

\* a report that is not fail although autogit, wiki-links and dof all warn
C18_Witness ==
    /\ Reported
    /\ adapter.isGitRepo /\ adapter.skillFileCount > 0 /\ ~adapter.hasAutogitTracking
    /\ report.results[4].status = "warn"
    /\ report.results[5].status = "warn"
    /\ report.overall = "warn"

\* the text of a link up to its first '|', trimmed
RECURSIVE UpToBar(_, _)
UpToBar(chars, i) ==
    IF i > Len(chars) \/ chars[i] = "|" THEN SubSeq(chars, 1, i - 1) ELSE UpToBar(chars, i + 1)

\* the entries of detail.broken of the wiki-links result, none when it passed
BrokenOf(r) ==
    IF "detail" \in DOMAIN r.results[4] THEN r.results[4].detail.broken ELSE <<>>

\* the names of the scanned files that have a header with a name
HeaderNames == {skillNameOf(mdFiles[i].content) : i \in DOMAIN mdFiles} \ {<<>>}

\* C19: in the wiki-links rule the target of a link is its text up to the
\* first '|': no broken entry carries an alias part in its target, and no
\* link whose target before the '|' names a scanned file with a header is
\* reported as broken.
C19_TargetExcludesAlias ==
    Reported =>
        \A i \in DOMAIN BrokenOf(report) :
            LET target == BrokenOf(report)[i].target
            IN  /\ "|" \notin Range(target)
                /\ Trim(UpToBar(target, 1)) \notin HeaderNames

\* the files below a directory with no hidden component on their path
RECURSIVE VisibleFilesUnder(_, _)
VisibleFilesUnder(children, dir) ==
    UNION { IF StartsWith(children[i].name, <<".">>) THEN {}
            ELSE IF children[i].kind = "file"
            THEN {[name |-> children[i].name, path |-> joinPath(dir, children[i].name),
                   content |-> children[i].content]}
            ELSE VisibleFilesUnder(children[i].children, joinPath(dir, children[i].name))
          : i \in DOMAIN children }

\* the (path, text) entries of the readable files whose name ends in .md in
\* any case
ExpectedFiles(tree) ==
    { [path |-> f.path, content |-> f.content] :
        f \in {g \in VisibleFilesUnder(tree, <<>>) :
                  EndsWith(ToLower(g.name), DotMd) /\ g.content # Null} }

\* C20: the scan collects exactly one (path, text) entry for every readable
\* file whose name ends in .md in any case and whose path has no component
\* starting with '.', and nothing else.
C20_ScanCollectsExactly ==
    pc \in {"scanned", "reported"} =>
        /\ Range(mdFiles) = ExpectedFiles(adapter.tree)
        /\ Len(mdFiles) = Cardinality(Range(mdFiles))

(***************************************************************************)
(* The order of the adapter calls of one run                                *)
(***************************************************************************)
AdapterRuleOrder == <<"git", "autogit", "skills-count">>

ScanOps == {"listDir", "readFile"}

\* the positions of the calls of the scan in the log
ScanCallsIn(log) == {i \in DOMAIN log : log[i].op \in ScanOps}

\* C21: the three adapter operations are called before any of them is
\* answered, and their rules fill positions 1..3 of the report in the order
\* git, autogit, skills-count whatever the order of the answers; no listDir
\* or readFile is called before the three have settled; no path is read
\* twice; and the results 4..6 are the content rules of the one scanned list
C21_AdapterRulesThenOneScan ==
    /\ pc # "ready" =>
          /\ Len(calls) >= 3
          /\ \A i \in 1..3 : calls[i] = RuleCall(AdapterRuleOrder[i])
          /\ ScanCallsIn(calls) # {} => DOMAIN run.results = AdapterRules
          /\ \A i \in ScanCallsIn(calls) : \A j \in ScanCallsIn(calls) :
                 (calls[i].op = "readFile" /\ calls[i] = calls[j]) => i = j
    /\ pc = "checking" => Len(calls) = 3
    /\ Reported =>
          /\ Len(report.results) = 6
          /\ \A i \in 1..3 :
                 /\ report.results[i].rule = AdapterRuleOrder[i]
                 /\ report.results[i] = adapterRuleResult(AdapterRuleOrder[i], adapter)
          /\ report.results[4] = checkWikiLinks(mdFiles)
          /\ report.results[5] = checkDof(mdFiles)
          /\ report.results[6] = checkHelpers(mdFiles)
          /\ \A i \in DOMAIN mdFiles :
                 Cardinality({k \in DOMAIN calls :
                                 calls[k] = Call("readFile", mdFiles[i].path)}) = 1

\* a run whose adapter answered skills-count first and git last, and whose
\* scan read two files, one of them in a sub-directory
C21_Witness ==
    /\ Reported
    /\ run.settled = <<"skills-count", "autogit", "git">>
    /\ Cardinality({k \in DOMAIN calls : calls[k].op = "readFile"}) >= 2
    /\ \E i \in DOMAIN mdFiles : \E k \in DOMAIN mdFiles[i].path : mdFiles[i].path[k] = "/"

\* C22: once the host has asked for the run to be abandoned, no further
\* adapter operation is called
C22_AbortStopsReads == [][abortRequested => calls' = calls]_vars

(***************************************************************************)
(* The wiki-links rule beside the resolver of the graph                    *)
(***************************************************************************)
\* the entries createWikiLinkResolver is given for the scanned documents
\* that have a header with a name: that name and the path of the file
KnownFrom(files) ==
    LET skillFiles == SelectSeq(files, LAMBDA f : skillNameOf(f.content) # <<>>)
    IN  [i \in DOMAIN skillFiles |->
            [id |-> <<>>, name |-> skillNameOf(skillFiles[i].content), slug |-> <<>>,
             file |-> skillFiles[i].path, path |-> skillFiles[i].path,
             fileStem |-> <<>>, aliases |-> <<>>]]

\* C30: a link of a scanned file is in the broken list of the wiki-links
\* result exactly when the resolver built from the scanned documents does
\* not find its target
C30_BrokenIffGhost ==
    Reported =>
        LET resolver == createWikiLinkResolver(KnownFrom(mdFiles))
        IN  \A i \in DOMAIN mdFiles :
                \A t \in Range(wikiTargets(mdFiles[i].content)) :
                    ([file |-> mdFiles[i].path, target |-> t] \in Range(BrokenOf(report)))
                        <=> ~resolve(resolver, t).found

(***************************************************************************)
(* graph.js, index.js: the native and the directory-handle adapter over    *)
(* one folder                                                              *)
(***************************************************************************)
\* a directory the program may no longer list: readDir and entries() throw
DeniedDir(name) ==
    [name |-> name, kind |-> "directory", children |-> <<>>, denied |-> TRUE]

IsDenied(entry) == "denied" \in DOMAIN entry

\* how a call of the underlying file system ended
Returned(value) == [threw |-> FALSE, value |-> value]

\* what an adapter operation resolved with, and whether an underlying call
\* threw on the way
Answer(value, failed) == [value |-> value, failed |-> failed]

\* the entry a path of one or more segments leads to
RECURSIVE entryAt(_, _)
entryAt(children, segs) ==
    LET entry == entryNamed(children, Head(segs))
    IN  IF Len(segs) = 1 THEN entry
        ELSE IF entry.kind # "directory" THEN MissingEntry
        ELSE entryAt(entry.children, Tail(segs))

\* fs.exists(path) of the native plugin: a file or a directory is there
fsExists(tree, segs) == segs = <<>> \/ entryAt(tree, segs).kind # "missing"

\* fs.readDir(path) of the native plugin
readDir(tree, segs) ==
    IF segs = <<>> THEN Returned(tree)
    ELSE LET entry == entryAt(tree, segs)
         IN  IF entry.kind # "directory" \/ IsDenied(entry) THEN Thrown
             ELSE Returned(entry.children)

\* fs.readTextFile(path) of the native plugin
readTextFile(tree, segs) ==
    IF segs = <<>> THEN Thrown
    ELSE LET entry == entryAt(tree, segs)
         IN  IF entry.kind # "file" THEN Thrown
             ELSE IF entry.content = Null THEN Thrown
             ELSE Returned(entry.content)

DotGit == <<".", "g", "i", "t">>

Refs == <<"r", "e", "f", "s">>

Heads == <<"h", "e", "a", "d", "s">>

Autogit == <<"a", "u", "t", "o", "g", "i", "t">>

Tracking == <<"t", "r", "a", "c", "k", "i", "n", "g">>

TrackingPath == <<DotGit, Refs, Heads, Autogit, Tracking>>

\* createTauriAdapter(...).readFile
tauriReadFile(tree, relativePath) ==
    LET r == readTextFile(tree, segments(relativePath))
    IN  IF r.threw THEN Answer(Null, TRUE) ELSE Answer(r.value, FALSE)

\* createTauriAdapter(...).listDir
tauriListDir(tree, relativePath) ==
    LET r == readDir(tree, segments(relativePath))
    IN  IF r.threw THEN Answer(<<>>, TRUE)
        ELSE Answer(FilterNonEmpty([i \in DOMAIN r.value |-> r.value[i].name]), FALSE)

\* createTauriAdapter(...).exists
tauriExists(tree, relativePath) == Answer(fsExists(tree, segments(relativePath)), FALSE)

\* createTauriAdapter(...).isGitRepo
tauriIsGitRepo(tree) == Answer(fsExists(tree, <<DotGit>>), FALSE)

\* createTauriAdapter(...).hasAutogitTracking
tauriHasAutogitTracking(tree) == Answer(fsExists(tree, TrackingPath), FALSE)

\* walk(dir) of the native skillFileCount from the i-th entry of the listing
\* on; acc is the count so far and whether a readDir has thrown, which
\* ends every walk under way
RECURSIVE tauriWalk(_, _, _)
tauriWalk(entries, i, acc) ==
    IF acc.failed \/ i > Len(entries) THEN acc
    ELSE
        LET entry == entries[i]
        IN  IF entry.name = <<>> \/ StartsWith(entry.name, <<".">>)
            THEN tauriWalk(entries, i + 1, acc)
            ELSE IF EndsWith(entry.name, DotMd)
            THEN tauriWalk(entries, i + 1, [acc EXCEPT !.value = @ + 1])
            ELSE IF entry.kind = "directory"
            THEN tauriWalk(entries, i + 1,
                     IF IsDenied(entry) THEN [acc EXCEPT !.failed = TRUE]
                     ELSE tauriWalk(entry.children, 1, acc))
            ELSE tauriWalk(entries, i + 1, acc)

\* createTauriAdapter(...).skillFileCount: count is declared outside the try
tauriSkillFileCount(tree) == tauriWalk(tree, 1, Answer(0, FALSE))

\* createFsaAdapter(...).readFile with the failure made visible
fsaReadFile(tree, relativePath) ==
    LET read == readFile(tree, relativePath)
    IN  Answer(read, read = Null /\ segments(relativePath) # <<>>)

\* createFsaAdapter(...).listDir with the failure made visible
fsaListDir(tree, relativePath) ==
    LET segs == segments(relativePath)
        thrown == \/ ~getDir(tree, segs).found
                  \/ segs # <<>> /\ IsDenied(entryAt(tree, segs))
    IN  IF thrown THEN Answer(<<>>, TRUE) ELSE Answer(listDir(tree, relativePath), FALSE)

\* createFsaAdapter(...).exists: a file handle, else a directory handle
fsaExists(tree, relativePath) ==
    LET parts == segments(relativePath)
    IN  IF parts = <<>> THEN Answer(TRUE, FALSE)
        ELSE LET dir == getDir(tree, SubSeq(parts, 1, Len(parts) - 1))
                 entry == IF dir.found THEN entryNamed(dir.children, parts[Len(parts)])
                          ELSE MissingEntry
             IN  IF entry.kind \in {"file", "directory"} THEN Answer(TRUE, FALSE)
                 ELSE Answer(FALSE, TRUE)

\* createFsaAdapter(...).isGitRepo
fsaIsGitRepo(tree) ==
    IF entryNamed(tree, DotGit).kind = "directory" THEN Answer(TRUE, FALSE)
    ELSE Answer(FALSE, TRUE)

\* createFsaAdapter(...).hasAutogitTracking
fsaHasAutogitTracking(tree) ==
    LET autogitDir == getDir(tree, <<DotGit, Refs, Heads, Autogit>>)
    IN  IF autogitDir.found /\ entryNamed(autogitDir.children, Tracking).kind = "file"
        THEN Answer(TRUE, FALSE)
        ELSE Answer(FALSE, TRUE)

\* walk(dirHandle) of the directory-handle skillFileCount from the i-th
\* entry on
RECURSIVE fsaWalk(_, _, _)
fsaWalk(entries, i, acc) ==
    IF acc.failed \/ i > Len(entries) THEN acc
    ELSE
        LET entry == entries[i]
        IN  IF entry.kind = "file" /\ EndsWith(entry.name, DotMd)
            THEN fsaWalk(entries, i + 1, [acc EXCEPT !.value = @ + 1])
            ELSE IF entry.kind = "directory" /\ ~StartsWith(entry.name, <<".">>)
            THEN fsaWalk(entries, i + 1,
                     IF IsDenied(entry) THEN [acc EXCEPT !.failed = TRUE]
                     ELSE fsaWalk(entry.children, 1, acc))
            ELSE fsaWalk(entries, i + 1, acc)

\* createFsaAdapter(...).skillFileCount: count is declared outside the try
fsaSkillFileCount(tree) == fsaWalk(tree, 1, Answer(0, FALSE))

(***************************************************************************)
(* One request answered by both adapters                                   *)
(***************************************************************************)
MaxDisk == 2

\* .git with refs/heads/autogit holding the entry t
GitDir(t) ==
    DirEntry(DotGit, <<DirEntry(Refs, <<DirEntry(Heads, <<DirEntry(Autogit, <<t>>)>>)>>)>>)

\* the entries a folder is made of, in the order it lists them; the last
\* three are the shapes of .git: a file (a linked work tree), a directory
\* with the tracking ref, a directory where tracking is itself a directory
DiskEntryPool ==
    << FileEntry(AMd, PlainText),
       FileEntry(HiddenMd, PlainText),
       FileEntry(UMd, Null),
       DirEntry(DName, <<FileEntry(EMd, PlainText)>>),
       DeniedDir(EName),
       DirEntry(DirMd, <<FileEntry(FMd, PlainText)>>),
       DirEntry(HiddenDir, <<FileEntry(FMd, PlainText)>>),
       FileEntry(DotGit, PlainText),
       GitDir(FileEntry(Tracking, PlainText)),
       GitDir(DirEntry(Tracking, <<>>)) >>

GitShapes == {8, 9, 10}

RECURSIVE DiskAt(_, _)
DiskAt(chosen, i) ==
    IF i > Len(DiskEntryPool) THEN <<>>
    ELSE (IF i \in chosen THEN <<DiskEntryPool[i]>> ELSE <<>>) \o DiskAt(chosen, i + 1)

DiskPool ==
    {DiskAt(chosen, 1) :
        chosen \in {c \in SUBSET DOMAIN DiskEntryPool :
                       Cardinality(c) <= MaxDisk /\ Cardinality(c \cap GitShapes) <= 1}}

PathPool ==
    { <<>>, AMd, UMd, DName, joinPath(DName, EMd), EName, joinPath(EName, FMd),
      DotGit, <<"z">> }

RequestPool ==
    [op : {"readFile", "listDir", "exists"}, path : PathPool]
    \cup [op : {"isGitRepo", "hasAutogitTracking", "skillFileCount"}, path : {<<>>}]

Variants == {"tauri", "fsa"}

InitAdapters ==
    /\ pc = "ready"
    /\ disk \in DiskPool
    /\ request \in RequestPool
    /\ answers = EmptyMap
    /\ fsOptions = NotCalled
    /\ fsOutcome = NotCalled
    /\ GraphIdle
    /\ ResolverIdle
    /\ NormalizerIdle
    /\ SchemaIdle
    /\ HealthIdle

\* the variant v answers the request with a
Answered(v, a) ==
    /\ v \notin DOMAIN answers
    /\ answers' = MapSet(answers, v, a)
    /\ pc' = IF DOMAIN answers' = Variants THEN "done" ELSE "asked"
    /\ UNCHANGED <<disk, request, fsOptions, fsOutcome,
                   graphVars, resolverVars, normalizerVars, schemaVars, healthVars>>

ReadFile ==
    /\ request.op = "readFile"
    /\ \/ Answered("tauri", tauriReadFile(disk, request.path))
       \/ Answered("fsa", fsaReadFile(disk, request.path))

ListDir ==
    /\ request.op = "listDir"
    /\ \/ Answered("tauri", tauriListDir(disk, request.path))
       \/ Answered("fsa", fsaListDir(disk, request.path))

Exists ==
    /\ request.op = "exists"
    /\ \/ Answered("tauri", tauriExists(disk, request.path))
       \/ Answered("fsa", fsaExists(disk, request.path))

IsGitRepo ==
    /\ request.op = "isGitRepo"
    /\ \/ Answered("tauri", tauriIsGitRepo(disk))
       \/ Answered("fsa", fsaIsGitRepo(disk))

HasAutogitTracking ==
    /\ request.op = "hasAutogitTracking"
    /\ \/ Answered("tauri", tauriHasAutogitTracking(disk))
       \/ Answered("fsa", fsaHasAutogitTracking(disk))

SkillFileCount ==
    /\ request.op = "skillFileCount"
    /\ \/ Answered("tauri", tauriSkillFileCount(disk))
       \/ Answered("fsa", fsaSkillFileCount(disk))

NextAdapters ==
    ReadFile \/ ListDir \/ Exists \/ IsGitRepo \/ HasAutogitTracking \/ SkillFileCount

SpecAdapters == InitAdapters /\ [][NextAdapters]_vars

\* the value an operation resolves with when it cannot do its work
BenignDefault(op) ==
    CASE op = "readFile" -> Null
      [] op = "listDir" -> <<>>
      [] op \in {"exists", "isGitRepo", "hasAutogitTracking"} -> FALSE
      [] op = "skillFileCount" -> 0

\* C23: an operation of either adapter during which an underlying call of
\* the file system threw resolves with the benign default of the operation
C23_FailureGivesDefault ==
    request # NotCalled =>
        \A v \in DOMAIN answers :
            answers[v].failed => answers[v].value = BenignDefault(request.op)

\* C25: over the same folder the two adapters resolve every operation with
\* equal values
C25_VariantsAgree ==
    (request # NotCalled /\ DOMAIN answers = Variants) =>
        answers["tauri"].value = answers["fsa"].value

(***************************************************************************)
(* health.js: the validators of a result and of a report                   *)
(***************************************************************************)
HEALTH_STATUSES == {"pass", "warn", "fail"}

\* the errors validateHealthCheckResult pushes for a result object; rule is
\* a string and message a string in every result the rules make
checkResultErrors(result) ==
    (IF result.rule = "" THEN <<"HealthCheckResult.rule must be a non-empty string">>
     ELSE <<>>)
    \o (IF result.status \notin HEALTH_STATUSES
        THEN <<"HealthCheckResult.status must be one of: pass, warn, fail">>
        ELSE <<>>)

validateHealthCheckResult(result) ==
    [valid |-> checkResultErrors(result) = <<>>, errors |-> checkResultErrors(result)]

\* the errors of the loop over report.results, from the i-th result on
RECURSIVE resultsErrors(_, _)
resultsErrors(results, i) ==
    IF i > Len(results) THEN <<>>
    ELSE (IF validateHealthCheckResult(results[i]).valid THEN <<>>
          ELSE <<"HealthReport.results[i]">>)
         \o resultsErrors(results, i + 1)

\* validateHealthReport(report) for a report object whose version and
\* checkedAt are strings, whose results is an array and whose duration is a
\* number
validateHealthReport(r) ==
    LET errors ==
            (IF r.version = "" THEN <<"HealthReport.version must be a non-empty string">>
             ELSE <<>>)
            \o (IF r.overall \notin HEALTH_STATUSES
                THEN <<"HealthReport.overall must be one of: pass, warn, fail">>
                ELSE <<>>)
            \o resultsErrors(r.results, 1)
            \o (IF r.duration < 0 THEN <<"HealthReport.duration must be a non-negative number">>
                ELSE <<>>)
        warnings ==
            IF r.version # "" /\ r.version # HEALTH_SCHEMA_VERSION
            THEN <<"HealthReport.version differs from current schema">>
            ELSE <<>>
    IN  [valid |-> errors = <<>>, errors |-> errors, warnings |-> warnings]

\* C24: the report a run resolves with has six results and passes
\* validateHealthReport with no error and no warning, whatever the adapter
\* answered and whichever reads came back as the benign default
C24_RunEndsWithValidReport ==
    Reported =>
        /\ Len(report.results) = 6
        /\ validateHealthReport(report) = [valid |-> TRUE, errors |-> <<>>, warnings |-> <<>>]
        /\ report.version = HEALTH_SCHEMA_VERSION
        /\ report.overall \in HEALTH_STATUSES
        /\ \A i \in DOMAIN report.results : validateHealthCheckResult(report.results[i]).valid
        /\ report.duration >= 0

\* a run over a folder that is no repository, counts no skill file and holds a
\* file whose read failed, reported when the clock had gone back
C24_Witness ==
    /\ Reported
    /\ ~adapter.isGitRepo /\ ~adapter.hasAutogitTracking /\ adapter.skillFileCount = 0
    /\ \E i \in DOMAIN adapter.tree :
           adapter.tree[i].kind = "file" /\ adapter.tree[i].content = Null
    /\ mdFiles = <<>>
    /\ report.duration = 0
    /\ report.checkedAt = toISOString(0)
    /\ run.startTime > 0

(***************************************************************************)
(* createFsaFs: the fs object handed to isomorphic-git                     *)
(***************************************************************************)
\* const readOnly = options.readOnly !== false, for an option given as the
\* name of its JavaScript value
readOnlyOf(opts) == opts.readOnly # "false"

\* how a call on the fs object ended: error is "none" when it resolved;
\* touched tells whether a method of the directory handle was called
Outcome(op, path, error, value, touched) ==
    [op |-> op, path |-> path, error |-> error, value |-> value, touched |-> touched]

\* the position of the entry of that name, 0 when there is none
IndexOfName(children, name) ==
    IF \E i \in DOMAIN children : children[i].name = name
    THEN CHOOSE i \in DOMAIN children : children[i].name = name
    ELSE 0

RemoveAt(list, i) == SubSeq(list, 1, i - 1) \o SubSeq(list, i + 1, Len(list))

\* the tree with entry put into, or replaced in, the directory at segs
RECURSIVE putEntry(_, _, _)
putEntry(children, segs, entry) ==
    IF segs = <<>>
    THEN IF IndexOfName(children, entry.name) = 0 THEN Append(children, entry)
         ELSE [children EXCEPT ![IndexOfName(children, entry.name)] = entry]
    ELSE [children EXCEPT ![IndexOfName(children, Head(segs))] =
             [@ EXCEPT !.children = putEntry(@, Tail(segs), entry)]]

\* the tree without the entry of that name in the directory at segs
RECURSIVE dropEntry(_, _, _)
dropEntry(children, segs, name) ==
    IF segs = <<>> THEN RemoveAt(children, IndexOfName(children, name))
    ELSE [children EXCEPT ![IndexOfName(children, Head(segs))] =
             [@ EXCEPT !.children = dropEntry(@, Tail(segs), name)]]

\* resolve(filepath): the parent segments and the last name; a path with
\* no segment is invalid
fsResolve(filepath) ==
    LET segs == segments(filepath)
    IN  IF segs = <<>> THEN [valid |-> FALSE]
        ELSE [valid |-> TRUE, segs |-> SubSeq(segs, 1, Len(segs) - 1), name |-> segs[Len(segs)]]

\* what a write operation does once it is past the read-only test;
\* change(parent, r) is the new tree or the error of the handle method
Unchanged(tree, op, filepath, error, touched) ==
    [disk |-> tree, outcome |-> Outcome(op, filepath, error, Null, touched)]

\* promises.readFile(filepath, 'utf8')
fsReadFile(tree, filepath) ==
    LET r == fsResolve(filepath)
        parentDir == getDir(tree, r.segs)
        entry == entryNamed(parentDir.children, r.name)
    IN  IF ~r.valid THEN Outcome("readFile", filepath, "EINVAL", Null, FALSE)
        ELSE IF ~parentDir.found THEN Outcome("readFile", filepath, "NotFoundError", Null, TRUE)
        ELSE IF entry.kind # "file" THEN Outcome("readFile", filepath, "ENOENT", Null, TRUE)
        ELSE Outcome("readFile", filepath, "none", entry.content, TRUE)

\* promises.readdir(filepath)
fsReaddir(tree, filepath) ==
    LET dir == getDir(tree, segments(filepath))
    IN  IF ~dir.found THEN Outcome("readdir", filepath, "NotFoundError", Null, TRUE)
        ELSE Outcome("readdir", filepath, "none",
                     [i \in DOMAIN dir.children |-> dir.children[i].name], TRUE)

\* variant: writeFile without the read-only test
writeFile_Unguarded(tree, readOnly, filepath, data) ==
    LET r == fsResolve(filepath)
        parentDir == getDir(tree, r.segs)
    IN  IF ~r.valid THEN Unchanged(tree, "writeFile", filepath, "EINVAL", FALSE)
        ELSE IF ~parentDir.found
        THEN Unchanged(tree, "writeFile", filepath, "NotFoundError", TRUE)
        ELSE IF entryNamed(parentDir.children, r.name).kind = "directory"
        THEN Unchanged(tree, "writeFile", filepath, "TypeMismatchError", TRUE)
        ELSE [disk |-> putEntry(tree, r.segs, FileEntry(r.name, data)),
              outcome |-> Outcome("writeFile", filepath, "none", Null, TRUE)]

\* promises.writeFile(filepath, data)
writeFile(tree, readOnly, filepath, data) ==
    LET r == fsResolve(filepath)
        parentDir == getDir(tree, r.segs)
    IN  IF readOnly THEN Unchanged(tree, "writeFile", filepath, "read-only", FALSE)
        ELSE IF ~r.valid THEN Unchanged(tree, "writeFile", filepath, "EINVAL", FALSE)
        ELSE IF ~parentDir.found
        THEN Unchanged(tree, "writeFile", filepath, "NotFoundError", TRUE)
        ELSE IF entryNamed(parentDir.children, r.name).kind = "directory"
        THEN Unchanged(tree, "writeFile", filepath, "TypeMismatchError", TRUE)
        ELSE [disk |-> putEntry(tree, r.segs, FileEntry(r.name, data)),
              outcome |-> Outcome("writeFile", filepath, "none", Null, TRUE)]

\* parentDir.removeEntry(name) without recursion: a file or an empty
\* directory goes, anything else is an error of the handle
removeEntry(tree, op, filepath, r) ==
    LET parentDir == getDir(tree, r.segs)
        entry == entryNamed(parentDir.children, r.name)
    IN  IF ~parentDir.found THEN Unchanged(tree, op, filepath, "NotFoundError", TRUE)
        ELSE IF entry.kind = "missing" THEN Unchanged(tree, op, filepath, "NotFoundError", TRUE)
        ELSE IF entry.kind = "directory" /\ entry.children # <<>>
        THEN Unchanged(tree, op, filepath, "InvalidModificationError", TRUE)
        ELSE [disk |-> dropEntry(tree, r.segs, r.name),
              outcome |-> Outcome(op, filepath, "none", Null, TRUE)]

\* promises.unlink(filepath)
unlink(tree, readOnly, filepath) ==
    LET r == fsResolve(filepath)
    IN  IF readOnly THEN Unchanged(tree, "unlink", filepath, "read-only", FALSE)
        ELSE IF ~r.valid THEN Unchanged(tree, "unlink", filepath, "EINVAL", FALSE)
        ELSE removeEntry(tree, "unlink", filepath, r)

\* promises.mkdir(filepath)
mkdir(tree, readOnly, filepath) ==
    LET r == fsResolve(filepath)
        parentDir == getDir(tree, r.segs)
        entry == entryNamed(parentDir.children, r.name)
    IN  IF readOnly THEN Unchanged(tree, "mkdir", filepath, "read-only", FALSE)
        ELSE IF ~r.valid THEN Unchanged(tree, "mkdir", filepath, "EINVAL", FALSE)
        ELSE IF ~parentDir.found THEN Unchanged(tree, "mkdir", filepath, "NotFoundError", TRUE)
        ELSE IF entry.kind = "file"
        THEN Unchanged(tree, "mkdir", filepath, "TypeMismatchError", TRUE)
        ELSE IF entry.kind = "directory" THEN Unchanged(tree, "mkdir", filepath, "none", TRUE)
        ELSE [disk |-> putEntry(tree, r.segs, DirEntry(r.name, <<>>)),
              outcome |-> Outcome("mkdir", filepath, "none", Null, TRUE)]

\* promises.rmdir(filepath)
rmdir(tree, readOnly, filepath) ==
    LET r == fsResolve(filepath)
    IN  IF readOnly THEN Unchanged(tree, "rmdir", filepath, "read-only", FALSE)
        ELSE IF ~r.valid THEN Unchanged(tree, "rmdir", filepath, "EINVAL", FALSE)
        ELSE removeEntry(tree, "rmdir", filepath, r)

(***************************************************************************)
(* Calls on the fs object of one directory handle                          *)
(***************************************************************************)
\* the folders behind the handle when the object is made
HandlePool ==
    { <<>>,
      <<FileEntry(AMd, PlainText)>>,
      <<FileEntry(AMd, PlainText), DirEntry(DName, <<FileEntry(EMd, PlainText)>>)>> }

\* options.readOnly as createFsaFs may receive it: absent, true, false, 0, null
ReadOnlyOptions == {"undefined", "true", "false", "0", "null"}

FsPaths == { <<>>, AMd, DName, joinPath(DName, EMd) }

FsData == { <<"y">> }

WriteOps == {"writeFile", "unlink", "mkdir", "rmdir"}

InitFsaFs ==
    /\ pc = "ready"
    /\ disk \in HandlePool
    /\ fsOptions \in [readOnly : ReadOnlyOptions]
    /\ fsOutcome = NotCalled
    /\ request = NotCalled
    /\ answers = NotCalled
    /\ GraphIdle
    /\ ResolverIdle
    /\ NormalizerIdle
    /\ SchemaIdle
    /\ HealthIdle

\* the variables no call on the fs object changes
fsFrame == <<request, answers, fsOptions,
             graphVars, resolverVars, normalizerVars, schemaVars, healthVars>>

FsReadFile ==
    /\ \E path \in FsPaths : fsOutcome' = fsReadFile(disk, path)
    /\ pc' = "called"
    /\ UNCHANGED <<disk, fsFrame>>

FsReaddir ==
    /\ \E path \in FsPaths : fsOutcome' = fsReaddir(disk, path)
    /\ pc' = "called"
    /\ UNCHANGED <<disk, fsFrame>>

FsWriteFile ==
    /\ \E path \in FsPaths : \E data \in FsData :
          \E result \in {writeFile(disk, readOnlyOf(fsOptions), path, data)} :
              disk' = result.disk /\ fsOutcome' = result.outcome
    /\ pc' = "called"
    /\ UNCHANGED fsFrame

FsUnlink ==
    /\ \E path \in FsPaths :
          \E result \in {unlink(disk, readOnlyOf(fsOptions), path)} :
              disk' = result.disk /\ fsOutcome' = result.outcome
    /\ pc' = "called"
    /\ UNCHANGED fsFrame

FsMkdir ==
    /\ \E path \in FsPaths :
          \E result \in {mkdir(disk, readOnlyOf(fsOptions), path)} :
              disk' = result.disk /\ fsOutcome' = result.outcome
    /\ pc' = "called"
    /\ UNCHANGED fsFrame

FsRmdir ==
    /\ \E path \in FsPaths :
          \E result \in {rmdir(disk, readOnlyOf(fsOptions), path)} :
              disk' = result.disk /\ fsOutcome' = result.outcome
    /\ pc' = "called"
    /\ UNCHANGED fsFrame

NextFsaFs == FsReadFile \/ FsReaddir \/ FsWriteFile \/ FsUnlink \/ FsMkdir \/ FsRmdir

SpecFsaFs == InitFsaFs /\ [][NextFsaFs]_vars

\* C26: unless options.readOnly is false, no call changes the folder behind
\* the handle, and writeFile, unlink, mkdir and rmdir end with the read-only
\* error without having called a method of the handle; the folder changes
\* only under readOnly false
C26_ReadOnlyByDefault ==
    /\ []((fsOutcome # NotCalled /\ fsOptions.readOnly # "false") =>
             (fsOutcome.op \in WriteOps =>
                 fsOutcome.error = "read-only" /\ ~fsOutcome.touched))
    /\ [][disk' # disk => fsOptions.readOnly = "false"]_vars

\* with the default options a file that exists was to be unlinked: the call
\* threw the read-only error and the file is still there
C26_Witness ==
    /\ fsOutcome # NotCalled
    /\ fsOptions.readOnly = "undefined"
    /\ fsOutcome.op = "unlink"
    /\ fsOutcome.path = AMd
    /\ fsOutcome.error = "read-only"
    /\ entryNamed(disk, AMd).kind = "file"


====
